---- MODULE Spec2Model ----
(***************************************************************************)
(* Model of the resumable batch evaluation engine of FairCV               *)
(* (src/judge_resumes.py, ResumeBatchProcessor and the worker pool it      *)
(* drives).  One controller thread loads the checkpoint, submits every     *)
(* pending resume to a ThreadPoolExecutor, collects the futures with       *)
(* as_completed and re-saves the whole result list after each completion.  *)
(* The process may be killed at any step and started again.                *)
(* A second part models the template generator of                          *)
(* src/generate_cv_template.py: validate_resume, the bounded retry loop of *)
(* generate_resume and the loops of batch_generate_resumes.                *)
(***************************************************************************)
EXTENDS Naturals, Sequences, FiniteSets

\* Number of records of the input file (ids 1..NumResumes, in input order).
NumResumes == 2
\* Largest max_workers a run is started with.
MaxWorkers == 2

VARIABLES
    output_file,        \* the file at self.output_file
    temp_file,          \* the file at self.temp_file (output_file + '.tmp')
    pc,                 \* position of the controller thread
    max_workers,        \* argument of process_resumes
    source,             \* which file _load_progress took the checkpoint from
    loaded,             \* processed_resumes as returned by _load_progress
    pending_resumes,    \* pending_resumes as returned by _load_progress
    processed_resumes,  \* the controller's result list
    future,             \* state of the future of each resume
    result,             \* outcome of each finished future
    finish_order,       \* finished futures not yet yielded, oldest first
    prefinished,        \* futures already finished when as_completed began
    submits,            \* executor.submit calls per resume in this run
    starts,             \* evaluate_multiple calls per resume in this run
    saves,              \* _save_progress calls in this run
    saved,              \* argument of the latest _save_progress call
    save_error,         \* what the latest _save_progress logged
    saving,             \* threads inside _save_progress
    writer,             \* thread of the latest write to a checkpoint file
    has_id              \* whether the records of the input file have an 'id'

\* The state of the template generator (src/generate_cv_template.py,
\* ResumeGenerator): its output file, its memory and the position of its
\* single thread inside batch_generate_resumes and generate_resume.
VARIABLES
    gen_output_file,        \* the file at self.output_file of the generator
    generated_resumes,      \* self.generated_data["resumes"]
    bias_tokens,            \* self.bias_tokens
    gen_pc,                 \* position of the generator's thread
    item,                   \* index of the loops' current work item
    outcome,                \* how the loop body ended for each work item
    total_generated,        \* local of batch_generate_resumes
    total_errors,           \* local of batch_generate_resumes
    position,               \* argument of generate_resume, validate_resume
    recruitment_type,       \* argument of generate_resume, validate_resume
    session,                \* state of the current generate_resume call
    conversation_history,   \* local of generate_resume
    attempt,                \* local of generate_resume
    calls,                  \* chat_completion calls of this generate_resume
    response,               \* how the latest chat_completion call ended
    validations,            \* validate_resume calls of this generate_resume
    resume_content,         \* the latest reply, argument of validate_resume
    validation_result       \* what the latest validate_resume returned

\* The state of one evaluation of a resume (src/judge_resumes.py,
\* ResumeEvaluator): the position of the thread inside evaluate_multiple
\* and evaluate_single, their locals and what they returned.
VARIABLES
    eval_pc,                \* position inside evaluate_multiple
    sample,                 \* loop index of evaluate_multiple, from 1
    retry_count,            \* local of evaluate_single
    eval_response,          \* what the latest self.client.generate returned
    evaluation_result,      \* what the latest _extract_scores returned
    generate_calls,         \* self.client.generate calls of each sample
    extractions,            \* _extract_scores calls of this evaluation
    samples,                \* what evaluate_single returned for each sample
    evaluations,            \* local of evaluate_multiple
    eval_result             \* what evaluate_multiple returned

\* The state of one substitution of a template (src/utils/add_information.py,
\* ResumeVariableAnalyzer): the combination taken from
\* get_variable_combinations and what apply_combination_to_resume returned.
VARIABLES
    combination,            \* the combination applied to the template
    augmented_content       \* what apply_combination_to_resume returned

\* The progress of each worker inside evaluate_multiple, followed only where
\* termination is checked.
VARIABLES
    sampled,                \* per id: evaluate_single calls that returned
    valid                   \* per id: one of them returned scores

batch_vars ==
    <<output_file, temp_file, pc, max_workers, source, loaded,
      pending_resumes, processed_resumes, future, result, finish_order,
      prefinished, submits, starts, saves, saved, save_error, saving,
      writer, has_id>>

gen_vars ==
    <<gen_output_file, generated_resumes, bias_tokens, gen_pc, item, outcome,
      total_generated, total_errors, position, recruitment_type, session,
      conversation_history, attempt, calls, response, validations,
      resume_content, validation_result>>

eval_vars ==
    <<eval_pc, sample, retry_count, eval_response, evaluation_result,
      generate_calls, extractions, samples, evaluations, eval_result>>

aug_vars == <<combination, augmented_content>>

worker_vars == <<sampled, valid>>

vars == <<batch_vars, gen_vars, eval_vars, aug_vars, worker_vars>>

Resumes == 1..NumResumes

\* ---------------------------------------------------------------- data

\* all_resumes: the input file, one record per id, ids pairwise distinct.
\* For an input file whose records have no 'id' key (has_id is FALSE) the
\* id of a record here is its position in the file: it tells the records
\* apart, and no code can read it.
all_resumes == [i \in Resumes |-> [id |-> i]]

\* What evaluate_multiple returns when at least one sample is valid.
Aggregate ==
    [kind |-> "scores", error |-> "none", evaluation_timestamp |-> TRUE]

\* What evaluate_multiple returns when no sample is valid.
NoValidEvaluations ==
    [kind |-> "error", error |-> "Failed to get valid evaluations",
     evaluation_timestamp |-> TRUE]

\* Variant of ExceptionEvaluation that carries neither reason nor timestamp.
ExceptionEvaluationBare ==
    [kind |-> "error", error |-> "none", evaluation_timestamp |-> FALSE]

\* The evaluation the controller builds in its except branch.
ExceptionEvaluation ==
    [kind |-> "error", error |-> "str(e)", evaluation_timestamp |-> TRUE]

\* Outcomes of a future: two return values and a raised exception.
Outcomes == {"scores", "no_valid", "raised"}

\* A file: absent, a JSON list of records with ids, a half-written file,
\* a file that is not JSON, JSON whose records carry no id, or a file that
\* exists and cannot be opened.
Absent == [kind |-> "absent", data |-> <<>>]
Partial == [kind |-> "partial", data |-> <<>>]
Corrupt == [kind |-> "corrupt", data |-> <<>>]
NoId == [kind |-> "noid", data |-> <<>>]
Unreadable == [kind |-> "unreadable", data |-> <<>>]
ListFile(l) == [kind |-> "list", data |-> l]

\* The file json.dump writes for a list of processed records, which are
\* the input records with an evaluation added: they have an 'id' exactly
\* when the input records have one.
Written(l) == IF has_id THEN ListFile(l) ELSE [kind |-> "noid", data |-> l]

Ids(l) == {l[k].id : k \in 1..Len(l)}

DistinctIds(l) == \A j, k \in 1..Len(l) : j # k => l[j].id # l[k].id

IsPrefix(s, t) == Len(s) <= Len(t) /\ SubSeq(t, 1, Len(s)) = s

\* Records of the input file already evaluated by an earlier, healthy run:
\* the first k input records, each with an aggregate.
EvaluatedPrefix(k) ==
    [j \in 1..k |-> [id |-> all_resumes[j].id, evaluation |-> Aggregate]]

\* ------------------------------------------------------- _load_progress

\* open + json.load + the two comprehensions that read resume['id'], of
\* the checkpoint records and of the input records, on one checkpoint file.
ReadCheckpoint(f) ==
    CASE f.kind = "list" -> IF has_id THEN "ok" ELSE "KeyError"
      [] f.kind \in {"partial", "corrupt"} -> "JSONDecodeError"
      [] f.kind = "noid" -> "KeyError"
      [] f.kind = "unreadable" -> "OSError"
      [] OTHER -> "absent"

\* Variant of PendingOf with the membership test inverted.
PendingOfInverted(processed) ==
    SelectSeq(all_resumes, LAMBDA r : r.id \in Ids(processed))

\* Variant of PendingOf that counts only the records without an error as
\* processed.
PendingOfRetryingErrors(processed) ==
    SelectSeq(all_resumes,
              LAMBDA r : \A k \in 1..Len(processed) :
                            processed[k].id = r.id
                               => processed[k].evaluation.kind = "error")

\* [resume for resume in all_resumes if resume['id'] not in processed_ids]
PendingOf(processed) ==
    SelectSeq(all_resumes, LAMBDA r : r.id \notin Ids(processed))

\* Neither file gave a checkpoint: nothing processed, everything pending.
Scratch ==
    [raised |-> FALSE, source |-> "none", processed |-> <<>>,
     pending |-> all_resumes]

\* Variant of LoadFrom that keeps the loaded records and leaves every input
\* record pending.
LoadFromUnfiltered(f, name) ==
    LET r == ReadCheckpoint(f) IN
    IF r = "ok"
    THEN [raised |-> FALSE, source |-> name, processed |-> f.data,
          pending |-> all_resumes]
    ELSE IF r = "JSONDecodeError"
    THEN Scratch
    ELSE [raised |-> TRUE, source |-> name, processed |-> <<>>,
          pending |-> <<>>]

\* One branch of _load_progress: the try block around one file.
LoadFrom(f, name) ==
    LET r == ReadCheckpoint(f) IN
    IF r = "ok"
    THEN [raised |-> FALSE, source |-> name, processed |-> f.data,
          pending |-> PendingOf(f.data)]
    ELSE IF r = "JSONDecodeError"
    THEN Scratch
    ELSE [raised |-> TRUE, source |-> name, processed |-> <<>>,
          pending |-> <<>>]

\* Variant of LoadProgress that goes on to the temp file when the output
\* file exists and is not JSON.
LoadProgressFallback(out, tmp) ==
    IF out.kind # "absent" /\ ReadCheckpoint(out) # "JSONDecodeError"
    THEN LoadFrom(out, "output")
    ELSE IF tmp.kind # "absent" THEN LoadFrom(tmp, "temp")
    ELSE Scratch

\* Variant of LoadProgress that prefers the temp file to the output file.
LoadProgressTempFirst(out, tmp) ==
    IF tmp.kind # "absent" THEN LoadFrom(tmp, "temp")
    ELSE IF out.kind # "absent" THEN LoadFrom(out, "output")
    ELSE Scratch

\* _load_progress: the output file if it exists, else the temp file if it
\* exists, else scratch.
LoadProgress(out, tmp) ==
    IF out.kind # "absent" THEN LoadFrom(out, "output")
    ELSE IF tmp.kind # "absent" THEN LoadFrom(tmp, "temp")
    ELSE Scratch

\* ----------------------------------------------------------- the state

NoFutures == [i \in Resumes |-> "none"]
NoResults == [i \in Resumes |-> "none"]
Zero == [i \in Resumes |-> 0]

\* Positions at which no process is running.
Stopped == {"idle", "done", "load_raised", "aborted", "crashed"}

\* Positions of a live controller thread.
Running ==
    {"submit", "collect", "save_open", "save_write", "save_replace",
     "aborting"}

\* Checkpoint files a first start may find: none, files an earlier run or
\* the environment left unusable, or a temp file holding a list.
InitFiles ==
    {<<o, t>> : o \in {Absent, Corrupt, NoId, Unreadable},
                t \in {Absent, Corrupt, NoId, Unreadable}
                       \cup {ListFile(EvaluatedPrefix(k)) : k \in 0..NumResumes}}

\* No evaluate_multiple call is followed step by step, and no template
\* is substituted.
NoEvaluator ==
    /\ combination = <<>>
    /\ augmented_content = <<>>
    /\ sampled = Zero
    /\ valid = [i \in 1..NumResumes |-> FALSE]
    /\ eval_pc = "off"
    /\ sample = 0
    /\ retry_count = 0
    /\ eval_response = [kind |-> "none"]
    /\ evaluation_result = [kind |-> "none"]
    /\ generate_calls = <<>>
    /\ extractions = 0
    /\ samples = <<>>
    /\ evaluations = <<>>
    /\ eval_result = [kind |-> "none"]

\* No generator process: the evaluation engine runs alone.
NoGenerator ==
    /\ gen_output_file = Absent
    /\ generated_resumes = <<>>
    /\ bias_tokens = <<>>
    /\ gen_pc = "off"
    /\ item = 0
    /\ outcome = <<>>
    /\ total_generated = 0
    /\ total_errors = 0
    /\ position = "none"
    /\ recruitment_type = "none"
    /\ session = "none"
    /\ conversation_history = <<>>
    /\ attempt = 0
    /\ calls = 0
    /\ response = [kind |-> "none"]
    /\ validations = 0
    /\ resume_content = [kind |-> "none"]
    /\ validation_result = [is_valid |-> FALSE, issues |-> {}]

Init ==
    /\ NoEvaluator
    /\ has_id = TRUE
    /\ \E f \in InitFiles : output_file = f[1] /\ temp_file = f[2]
    /\ pc = "idle"
    /\ max_workers = 1
    /\ source = "none"
    /\ loaded = <<>>
    /\ pending_resumes = <<>>
    /\ processed_resumes = <<>>
    /\ future = NoFutures
    /\ result = NoResults
    /\ finish_order = <<>>
    /\ prefinished = {}
    /\ submits = Zero
    /\ starts = Zero
    /\ saves = 0
    /\ saved = <<>>
    /\ save_error = "none"
    /\ saving = {}
    /\ writer = "none"
    /\ NoGenerator

\* The memory of a process that is not there.
NoMemory ==
    /\ max_workers' = 1
    /\ source' = "none"
    /\ loaded' = <<>>
    /\ pending_resumes' = <<>>
    /\ processed_resumes' = <<>>
    /\ future' = NoFutures
    /\ result' = NoResults
    /\ finish_order' = <<>>
    /\ prefinished' = {}
    /\ submits' = Zero
    /\ starts' = Zero
    /\ saves' = 0
    /\ saved' = <<>>
    /\ save_error' = "none"
    /\ saving' = {}
    /\ writer' = "none"

\* ------------------------------------------------------ process_resumes

\* process_resumes(max_workers) up to the executor: _load_progress, the
\* early return when nothing is pending.
Start(w) ==
    /\ pc \in Stopped
    /\ LET r == LoadProgress(output_file, temp_file) IN
       IF r.raised
       THEN /\ pc' = "load_raised"
            /\ NoMemory
       ELSE /\ pc' = IF r.pending = <<>> THEN "done" ELSE "submit"
            /\ max_workers' = w
            /\ source' = r.source
            /\ loaded' = r.processed
            /\ pending_resumes' = r.pending
            /\ processed_resumes' = r.processed
            /\ future' = NoFutures
            /\ result' = NoResults
            /\ finish_order' = <<>>
            /\ prefinished' = {}
            /\ submits' = Zero
            /\ starts' = Zero
            /\ saves' = 0
            /\ saved' = r.processed
            /\ save_error' = "none"
            /\ saving' = {}
            /\ writer' = "none"
    /\ UNCHANGED <<output_file, temp_file>>
    /\ UNCHANGED has_id
    /\ UNCHANGED gen_vars
    /\ UNCHANGED eval_vars
    /\ UNCHANGED aug_vars
    /\ UNCHANGED worker_vars

PendingIds == {pending_resumes[k].id : k \in 1..Len(pending_resumes)}

\* Positions of pending_resumes not yet handed to executor.submit.
Unsubmitted == {k \in 1..Len(pending_resumes) : future[pending_resumes[k].id] = "none"}

\* The dict comprehension walks pending_resumes in order.
NextToSubmit == CHOOSE k \in Unsubmitted : \A j \in Unsubmitted : k <= j

\* One executor.submit(self.evaluator.evaluate_multiple, resume).
Submit ==
    /\ pc = "submit"
    /\ Unsubmitted # {}
    /\ LET i == pending_resumes[NextToSubmit].id IN
       /\ future' = [future EXCEPT ![i] = "queued"]
       /\ submits' = [submits EXCEPT ![i] = @ + 1]
    /\ UNCHANGED <<output_file, temp_file, pc, max_workers, source, loaded,
                   pending_resumes, processed_resumes, result, finish_order,
                   prefinished, starts, saves, saved, save_error, saving,
                   writer>>
    /\ UNCHANGED has_id
    /\ UNCHANGED gen_vars
    /\ UNCHANGED eval_vars
    /\ UNCHANGED aug_vars
    /\ UNCHANGED worker_vars

\* as_completed(future_to_resume) is entered: the futures that are already
\* finished are set apart and are yielded first, in no particular order.
AsCompleted ==
    /\ pc = "submit"
    /\ Unsubmitted = {}
    /\ pc' = "collect"
    /\ prefinished' = {i \in Resumes : future[i] = "finished"}
    /\ UNCHANGED <<output_file, temp_file, max_workers, source, loaded,
                   pending_resumes, processed_resumes, future, result,
                   finish_order, submits, starts, saves, saved, save_error,
                   saving, writer>>
    /\ UNCHANGED has_id
    /\ UNCHANGED gen_vars
    /\ UNCHANGED eval_vars
    /\ UNCHANGED aug_vars
    /\ UNCHANGED worker_vars

InProgress == {i \in Resumes : future[i] = "running"}

\* The work queue of the executor is first in, first out.
HeadOfQueue(i) ==
    /\ future[i] = "queued"
    /\ \A j \in Resumes : future[j] = "queued" => i <= j

\* Variant of PoolHasIdleThread: a thread is spawned for every work item.
PoolUnbounded == TRUE

\* Variant of PoolHasIdleThread in which the pool keeps one thread back.
PoolOneShort == Cardinality(InProgress) + 1 < max_workers

\* ThreadPoolExecutor(max_workers=max_workers): a work item runs only on
\* one of at most max_workers pool threads.
PoolHasIdleThread == Cardinality(InProgress) < max_workers

\* A pool thread takes the next work item and calls evaluate_multiple.
WorkerStart(i) ==
    /\ pc \in Running
    /\ HeadOfQueue(i)
    /\ PoolHasIdleThread
    /\ future' = [future EXCEPT ![i] = "running"]
    /\ starts' = [starts EXCEPT ![i] = @ + 1]
    /\ UNCHANGED <<output_file, temp_file, pc, max_workers, source, loaded,
                   pending_resumes, processed_resumes, result, finish_order,
                   prefinished, submits, saves, saved, save_error, saving,
                   writer>>
    /\ UNCHANGED has_id
    /\ UNCHANGED gen_vars
    /\ UNCHANGED eval_vars
    /\ UNCHANGED aug_vars
    /\ UNCHANGED worker_vars

\* Variant of WorkerFinish in which the worker saves the progress itself
\* before it returns.
WorkerFinishSaving(i, o) ==
    /\ pc \in Running
    /\ future[i] = "running"
    /\ future' = [future EXCEPT ![i] = "finished"]
    /\ result' = [result EXCEPT ![i] = o]
    /\ finish_order' = Append(finish_order, i)
    /\ temp_file' = ListFile(processed_resumes)
    /\ writer' = "worker"
    /\ UNCHANGED <<output_file, pc, max_workers, source, loaded,
                   pending_resumes, processed_resumes, prefinished, submits,
                   starts, saves, saved, save_error, saving>>
    /\ UNCHANGED has_id
    /\ UNCHANGED gen_vars
    /\ UNCHANGED eval_vars
    /\ UNCHANGED aug_vars
    /\ UNCHANGED worker_vars

\* evaluate_multiple returns or raises: the future is finished.  The worker
\* touches no file.
WorkerFinish(i, o) ==
    /\ pc \in Running
    /\ future[i] = "running"
    /\ future' = [future EXCEPT ![i] = "finished"]
    /\ result' = [result EXCEPT ![i] = o]
    /\ finish_order' = Append(finish_order, i)
    /\ UNCHANGED <<output_file, temp_file, pc, max_workers, source, loaded,
                   pending_resumes, processed_resumes, prefinished, submits,
                   starts, saves, saved, save_error, saving, writer>>
    /\ UNCHANGED has_id
    /\ UNCHANGED gen_vars
    /\ UNCHANGED eval_vars
    /\ UNCHANGED aug_vars
    /\ UNCHANGED worker_vars

\* as_completed yields the futures found finished on entry first, then the
\* others in the order they finish.
Yieldable ==
    IF prefinished # {} THEN prefinished
    ELSE IF finish_order # <<>> THEN {Head(finish_order)}
    ELSE {}

\* The evaluation stored for a finished future: future.result(), or the
\* except branch's error record.
EvaluationOf(o) ==
    CASE o = "scores" -> Aggregate
      [] o = "no_valid" -> NoValidEvaluations
      [] OTHER -> ExceptionEvaluation

\* Variant of ProcessedResume that copies the record submitted first
\* instead of the record of the completed future.
ProcessedResumeOfFirst(i, o) ==
    [id |-> pending_resumes[1].id, evaluation |-> EvaluationOf(o)]

\* processed_resume = resume.copy(); processed_resume['evaluation'] = ...
ProcessedResume(i, o) == [id |-> i, evaluation |-> EvaluationOf(o)]

\* Variant of Appended that starts the list over.
Overwritten(l, e) == <<e>>

\* Variant of Appended that puts the record first.
Prepended(l, e) == <<e>> \o l

\* processed_resumes.append(processed_resume)
Appended(l, e) == Append(l, e)

\* Variant of Collect without the except branch: the exception that
\* future.result() re-raises leaves the loop.
CollectUncaught(i) ==
    /\ pc = "collect"
    /\ i \in Yieldable
    /\ future' = [future EXCEPT ![i] = "yielded"]
    /\ prefinished' = prefinished \ {i}
    /\ finish_order' = SelectSeq(finish_order, LAMBDA j : j # i)
    /\ IF result[i] = "raised"
       THEN /\ pc' = "aborting"
            /\ UNCHANGED <<processed_resumes, saved, saves, save_error,
                           saving>>
       ELSE /\ processed_resumes' =
                   Appended(processed_resumes, ProcessedResume(i, result[i]))
            /\ saved' = processed_resumes'
            /\ saves' = saves + 1
            /\ save_error' = "none"
            /\ saving' = saving \cup {"controller"}
            /\ pc' = "save_open"
    /\ UNCHANGED <<output_file, temp_file, max_workers, source, loaded,
                   pending_resumes, result, submits, starts, writer>>
    /\ UNCHANGED has_id
    /\ UNCHANGED gen_vars
    /\ UNCHANGED eval_vars
    /\ UNCHANGED aug_vars
    /\ UNCHANGED worker_vars

\* One iteration of the for loop up to the call of _save_progress in its
\* finally block: take the next completion, append its record (the try
\* branch for a returned value, the except branch for a raised exception).
Collect(i) ==
    /\ pc = "collect"
    /\ i \in Yieldable
    /\ future' = [future EXCEPT ![i] = "yielded"]
    /\ prefinished' = prefinished \ {i}
    /\ finish_order' = SelectSeq(finish_order, LAMBDA j : j # i)
    /\ processed_resumes' = Appended(processed_resumes, ProcessedResume(i, result[i]))
    /\ saved' = processed_resumes'
    /\ saves' = saves + 1
    /\ save_error' = "none"
    /\ saving' = saving \cup {"controller"}
    /\ pc' = "save_open"
    /\ UNCHANGED <<output_file, temp_file, max_workers, source, loaded,
                   pending_resumes, result, submits, starts, writer>>
    /\ UNCHANGED has_id
    /\ UNCHANGED gen_vars
    /\ UNCHANGED eval_vars
    /\ UNCHANGED aug_vars
    /\ UNCHANGED worker_vars

\* Variant of SaveOpen that opens the output file itself for writing.
SaveOpenInPlace ==
    /\ pc = "save_open"
    /\ output_file' = Partial
    /\ writer' = "controller"
    /\ pc' = "save_write"
    /\ UNCHANGED <<temp_file, max_workers, source, loaded, pending_resumes,
                   processed_resumes, future, result, finish_order,
                   prefinished, submits, starts, saves, saved, save_error,
                   saving>>
    /\ UNCHANGED has_id
    /\ UNCHANGED gen_vars
    /\ UNCHANGED eval_vars
    /\ UNCHANGED aug_vars
    /\ UNCHANGED worker_vars

\* open(self.temp_file, 'w'): the temp file is created or truncated.
SaveOpen ==
    /\ pc = "save_open"
    /\ temp_file' = Partial
    /\ writer' = "controller"
    /\ pc' = "save_write"
    /\ UNCHANGED <<output_file, max_workers, source, loaded, pending_resumes,
                   processed_resumes, future, result, finish_order,
                   prefinished, submits, starts, saves, saved, save_error,
                   saving>>
    /\ UNCHANGED has_id
    /\ UNCHANGED gen_vars
    /\ UNCHANGED eval_vars
    /\ UNCHANGED aug_vars
    /\ UNCHANGED worker_vars

\* open raises (no permission, no directory): nothing catches it, the
\* exception leaves the finally block and the loop.
SaveOpenFails ==
    /\ pc = "save_open"
    /\ save_error' = "open"
    /\ saving' = saving \ {"controller"}
    /\ pc' = "aborting"
    /\ UNCHANGED <<output_file, temp_file, max_workers, source, loaded,
                   pending_resumes, processed_resumes, future, result,
                   finish_order, prefinished, submits, starts, saves, saved,
                   writer>>
    /\ UNCHANGED has_id
    /\ UNCHANGED gen_vars
    /\ UNCHANGED eval_vars
    /\ UNCHANGED aug_vars
    /\ UNCHANGED worker_vars

\* json.dump and the close of the with block: the temp file holds the list.
SaveWrite ==
    /\ pc = "save_write"
    /\ temp_file' = Written(saved)
    /\ writer' = "controller"
    /\ pc' = "save_replace"
    /\ UNCHANGED <<output_file, max_workers, source, loaded, pending_resumes,
                   processed_resumes, future, result, finish_order,
                   prefinished, submits, starts, saves, saved, save_error,
                   saving>>
    /\ UNCHANGED has_id
    /\ UNCHANGED gen_vars
    /\ UNCHANGED eval_vars
    /\ UNCHANGED aug_vars
    /\ UNCHANGED worker_vars

\* json.dump or the close raises (disk full): the temp file stays
\* half-written and the exception leaves the loop.
SaveWriteFails ==
    /\ pc = "save_write"
    /\ save_error' = "write"
    /\ saving' = saving \ {"controller"}
    /\ pc' = "aborting"
    /\ UNCHANGED <<output_file, temp_file, max_workers, source, loaded,
                   pending_resumes, processed_resumes, future, result,
                   finish_order, prefinished, submits, starts, saves, saved,
                   writer>>
    /\ UNCHANGED has_id
    /\ UNCHANGED gen_vars
    /\ UNCHANGED eval_vars
    /\ UNCHANGED aug_vars
    /\ UNCHANGED worker_vars

\* os.replace(self.temp_file, self.output_file) succeeds.
SaveReplace ==
    /\ pc = "save_replace"
    /\ output_file' = temp_file
    /\ temp_file' = Absent
    /\ writer' = "controller"
    /\ saving' = saving \ {"controller"}
    /\ pc' = "collect"
    /\ UNCHANGED <<max_workers, source, loaded, pending_resumes,
                   processed_resumes, future, result, finish_order,
                   prefinished, submits, starts, saves, saved, save_error>>
    /\ UNCHANGED has_id
    /\ UNCHANGED gen_vars
    /\ UNCHANGED eval_vars
    /\ UNCHANGED aug_vars
    /\ UNCHANGED worker_vars

\* Variant of SaveReplaceFails without the try around os.replace: the
\* exception leaves the loop.
SaveReplaceUncaught ==
    /\ pc = "save_replace"
    /\ save_error' = "replace"
    /\ saving' = saving \ {"controller"}
    /\ pc' = "aborting"
    /\ UNCHANGED <<output_file, temp_file, max_workers, source, loaded,
                   pending_resumes, processed_resumes, future, result,
                   finish_order, prefinished, submits, starts, saves, saved,
                   writer>>
    /\ UNCHANGED has_id
    /\ UNCHANGED gen_vars
    /\ UNCHANGED eval_vars
    /\ UNCHANGED aug_vars
    /\ UNCHANGED worker_vars

\* os.replace raises: the except branch logs it and the loop goes on.
SaveReplaceFails ==
    /\ pc = "save_replace"
    /\ save_error' = "replace"
    /\ saving' = saving \ {"controller"}
    /\ pc' = "collect"
    /\ UNCHANGED <<output_file, temp_file, max_workers, source, loaded,
                   pending_resumes, processed_resumes, future, result,
                   finish_order, prefinished, submits, starts, saves, saved,
                   writer>>
    /\ UNCHANGED has_id
    /\ UNCHANGED gen_vars
    /\ UNCHANGED eval_vars
    /\ UNCHANGED aug_vars
    /\ UNCHANGED worker_vars

\* Futures the executor still owes a run.
Outstanding == {i \in Resumes : future[i] \in {"queued", "running"}}

\* as_completed is exhausted, the with blocks are left, process_resumes
\* returns.
Return ==
    /\ pc = "collect"
    /\ \A i \in PendingIds : future[i] = "yielded"
    /\ pc' = "done"
    /\ UNCHANGED <<output_file, temp_file, max_workers, source, loaded,
                   pending_resumes, processed_resumes, future, result,
                   finish_order, prefinished, submits, starts, saves, saved,
                   save_error, saving, writer>>
    /\ UNCHANGED has_id
    /\ UNCHANGED gen_vars
    /\ UNCHANGED eval_vars
    /\ UNCHANGED aug_vars
    /\ UNCHANGED worker_vars

\* An exception leaves process_resumes: the executor's __exit__ waits for
\* every submitted future, then the exception reaches main.
Raise ==
    /\ pc = "aborting"
    /\ Outstanding = {}
    /\ pc' = "aborted"
    /\ UNCHANGED <<output_file, temp_file, max_workers, source, loaded,
                   pending_resumes, processed_resumes, future, result,
                   finish_order, prefinished, submits, starts, saves, saved,
                   save_error, saving, writer>>
    /\ UNCHANGED has_id
    /\ UNCHANGED gen_vars
    /\ UNCHANGED eval_vars
    /\ UNCHANGED aug_vars
    /\ UNCHANGED worker_vars

\* The process is killed: its memory is gone, the files stay as they are.
Crash ==
    /\ pc \in Running
    /\ pc' = "crashed"
    /\ NoMemory
    /\ UNCHANGED <<output_file, temp_file>>
    /\ UNCHANGED has_id
    /\ UNCHANGED gen_vars
    /\ UNCHANGED eval_vars
    /\ UNCHANGED aug_vars
    /\ UNCHANGED worker_vars

Next ==
    \/ \E w \in 1..MaxWorkers : Start(w)
    \/ Submit
    \/ AsCompleted
    \/ \E i \in Resumes : WorkerStart(i)
    \/ \E i \in Resumes, o \in Outcomes : WorkerFinish(i, o)
    \/ \E i \in Resumes : Collect(i)
    \/ SaveOpen
    \/ SaveOpenFails
    \/ SaveWrite
    \/ SaveWriteFails
    \/ SaveReplace
    \/ SaveReplaceFails
    \/ Return
    \/ Raise
    \/ Crash

Spec == Init /\ [][Next]_vars

\* The engine started in a fresh directory on an input file whose records
\* have only metadata and content, as generate_cv_template.py and
\* utils/add_information.py write them.
RegistryInit ==
    /\ NoEvaluator
    /\ has_id = FALSE
    /\ output_file = Absent
    /\ temp_file = Absent
    /\ pc = "idle"
    /\ max_workers = 1
    /\ source = "none"
    /\ loaded = <<>>
    /\ pending_resumes = <<>>
    /\ processed_resumes = <<>>
    /\ future = NoFutures
    /\ result = NoResults
    /\ finish_order = <<>>
    /\ prefinished = {}
    /\ submits = Zero
    /\ starts = Zero
    /\ saves = 0
    /\ saved = <<>>
    /\ save_error = "none"
    /\ saving = {}
    /\ writer = "none"
    /\ NoGenerator

RegistrySpec == RegistryInit /\ [][Next]_vars

\* ------------------------------------- one call that is left to finish

\* num_evaluations: int = 3
num_evaluations == 3

\* A single process_resumes call.
FirstStart(w) == pc = "idle" /\ Start(w)

\* One round of the for loop of evaluate_multiple: evaluate_single returns,
\* after at most max_retries collaborator calls, scores or None.
Sample(i, ok) ==
    /\ pc \in Running
    /\ future[i] = "running"
    /\ sampled[i] < num_evaluations
    /\ sampled' = [sampled EXCEPT ![i] = @ + 1]
    /\ valid' = [valid EXCEPT ![i] = @ \/ ok]
    /\ UNCHANGED batch_vars
    /\ UNCHANGED gen_vars
    /\ UNCHANGED eval_vars
    /\ UNCHANGED aug_vars

\* After num_evaluations rounds evaluate_multiple returns the aggregate of
\* the valid samples, or the error record when there is none.
SampledFinish(i) ==
    /\ sampled[i] = num_evaluations
    /\ WorkerFinish(i, IF valid[i] THEN "scores" ELSE "no_valid")

\* evaluate_single raises outside its try block: generate_evaluation_prompt
\* reads metadata, position and content of the record before the first
\* collaborator call, and a record without them ends the worker at once.
WorkerRaises(i) ==
    /\ sampled[i] = 0
    /\ WorkerFinish(i, "raised")

\* The steps of a call in which no save fails and that nobody kills.
TerminationNext ==
    \/ \E w \in 1..MaxWorkers : FirstStart(w)
    \/ Submit
    \/ AsCompleted
    \/ \E i \in Resumes : WorkerStart(i)
    \/ \E i \in Resumes, ok \in BOOLEAN : Sample(i, ok)
    \/ \E i \in Resumes : SampledFinish(i)
    \/ \E i \in Resumes : WorkerRaises(i)
    \/ \E i \in Resumes : Collect(i)
    \/ SaveOpen
    \/ SaveWrite
    \/ SaveReplace
    \/ Return

\* Every thread that can take a step is scheduled in the end, and every
\* collaborator call returns.
TerminationSpec ==
    Init /\ [][TerminationNext]_vars /\ WF_vars(TerminationNext)

\* ------------------------------------------------ the template generator

\* Largest number of lexemes of a reply text validate_resume is checked on.
MaxTextLen == 6
\* Number of work items the loops of batch_generate_resumes run over.
NumGenItems == 2

\* class TechPosition, in definition order.
TechPosition ==
    <<"BACKEND", "FRONTEND", "ANDROID", "IOS", "FULLSTACK", "ML", "CV",
      "NLP", "RECOMMEND", "ARCH", "SECURITY", "DEVOPS", "PM_TECH",
      "PM_BUSINESS">>

Development == {"BACKEND", "FRONTEND", "ANDROID", "IOS", "FULLSTACK"}
Algorithm == {"ML", "CV", "NLP", "RECOMMEND"}
Architecture == {"ARCH", "SECURITY", "DEVOPS"}
Product == {"PM_TECH", "PM_BUSINESS"}

get_applicable_recruitment_types(p) ==
    IF p \in Development THEN <<"CAMPUS_TECH", "SOCIAL_DEV">>
    ELSE IF p \in Algorithm
    THEN <<"CAMPUS_TECH", "SOCIAL_ALGO", "SPECIAL_EXPERT">>
    ELSE IF p \in Architecture THEN <<"SOCIAL_ARCH", "SPECIAL_EXPERT">>
    ELSE <<"CAMPUS_PRODUCT", "SOCIAL_PM", "SPECIAL_MANAGER">>

get_applicable_skill_levels(rt) ==
    IF rt \in {"CAMPUS_TECH", "CAMPUS_PRODUCT"} THEN <<"VERY_LOW", "LOW">>
    ELSE IF rt \in {"SOCIAL_DEV", "SOCIAL_ALGO", "SOCIAL_PM", "SOCIAL_ARCH"}
    THEN <<"MEDIUM", "HIGH">>
    ELSE <<"VERY_HIGH">>

RECURSIVE Flatten(_)
Flatten(ss) == IF ss = <<>> THEN <<>> ELSE Head(ss) \o Flatten(Tail(ss))

\* The innermost loop: one work item per skill level.
ItemsOfType(p, rt) ==
    LET levels == get_applicable_skill_levels(rt) IN
    [k \in 1..Len(levels) |->
        [position |-> p, recruitment_type |-> rt, skill_level |-> levels[k]]]

\* The middle loop over the recruitment types of one position.
ItemsOfPosition(p) ==
    LET rts == get_applicable_recruitment_types(p) IN
    Flatten([j \in 1..Len(rts) |-> ItemsOfType(p, rts[j])])

\* The work items in the order in which the three nested loops reach them.
Enumeration ==
    Flatten([i \in 1..Len(TechPosition) |-> ItemsOfPosition(TechPosition[i])])

\* The sample of the enumeration the loops are run over: every other item,
\* in order, so that campus and social items alternate.
WorkItems == [k \in 1..NumGenItems |-> Enumeration[2 * k - 1]]

\* A text is a sequence of lexemes: a brace or a word without braces.  A
\* marker is a word between braces.
Token(name) == <<"{", name, "}">>

\* setup_bias_tokens: the markers by category ("career" is the category
\* of the markers about earlier employment).
setup_bias_tokens ==
    [demographic |-> {Token("NAME"), Token("AGE"), Token("GENDER"),
                      Token("MARRIAGE"), Token("HUKOU")},
     career |-> {Token("INDUSTRY"), Token("COMPANY_SIZE"),
                 Token("WORK_EXPERIENCE")},
     special |-> {Token("DISABILITY")},
     political |-> {Token("POLITICAL")}]

\* The marker table cut down to one demographic and one career marker: the
\* table the bounded runs give to self.bias_tokens.
SampleTokens ==
    [c \in {"demographic", "career"} |->
        setup_bias_tokens[c] \cap {Token("NAME"), Token("INDUSTRY")}]

\* A reply: its text as far as markers go, the required section headings
\* one of whose variants occurs in it, and whether one of the
\* quantitative_patterns matches it.
StrContent(text, sections, quantitative) ==
    [kind |-> "str", text |-> text, sections |-> sections,
     quantitative |-> quantitative]

\* A response whose message content is null.
NoneContent == [kind |-> "none"]

\* Variant of is_campus_recruitment that knows the technical campus type
\* only.
is_campus_recruitment_tech_only(rt) == rt = "CAMPUS_TECH"

is_campus_recruitment(rt) ==
    rt \in {"CAMPUS_TECH", "CAMPUS_PRODUCT", "CAMPUS_GENERAL"}

\* allowed_tokens: every marker of every category, without the career
\* category for a campus recruitment.
allowed_tokens(tokens, rt) ==
    UNION {tokens[c] : c \in {d \in DOMAIN tokens :
                                 ~(is_campus_recruitment(rt) /\ d = "career")}}

\* Position of the first closing brace of s after position i, 0 if none.
RECURSIVE NextClose(_, _)
NextClose(s, i) ==
    IF i >= Len(s) THEN 0
    ELSE IF s[i + 1] = "}" THEN i + 1
    ELSE NextClose(s, i + 1)

\* re.findall(r'\{[^}]+}', s) from position i on: leftmost matches, not
\* overlapping, each from an opening brace to the next closing brace with
\* at least one lexeme between them.
RECURSIVE findall(_, _)
findall(s, i) ==
    IF i > Len(s) THEN {}
    ELSE IF s[i] # "{" THEN findall(s, i + 1)
    ELSE LET close == NextClose(s, i) IN
         IF close = 0 THEN {}
         ELSE IF close = i + 1 THEN findall(s, i + 1)
         ELSE {SubSeq(s, i, close)} \cup findall(s, close + 1)

used_tokens(content) == findall(content.text, 1)

position_type(p) ==
    IF p \in Development THEN "development"
    ELSE IF p \in Algorithm THEN "algorithm"
    ELSE IF p \in Architecture THEN "architecture"
    ELSE IF p \in Product THEN "product"
    ELSE "None"

\* position_requirements[position_type]["required_sections"]
required_sections(ptype) ==
    CASE ptype = "development" -> {"skills", "projects"}
      [] ptype = "algorithm" -> {"skills", "projects", "research"}
      [] ptype = "architecture" -> {"skills", "projects", "architecture_design"}
      [] ptype = "product" -> {"product_experience", "project_management"}
      [] OTHER -> {}

\* The entries of the issues list.  The list's order among the markers is
\* the iteration order of a Python set, so the issues are kept as a set.
MissingIssue(t) == [kind |-> "missing", about |-> t]
ExtraIssue(t) == [kind |-> "extra", about |-> t]
SectionIssue(s) == [kind |-> "section", about |-> <<s>>]
QuantitativeIssue == [kind |-> "quantitative", about |-> <<>>]

\* The issues validate_resume collects for a reply.
IssuesOf(tokens, content, p, rt) ==
    LET allowed == allowed_tokens(tokens, rt)
        used == used_tokens(content)
    IN  {MissingIssue(t) : t \in allowed \ used}
        \cup {ExtraIssue(t) : t \in used \ allowed}
        \cup {SectionIssue(s) :
                 s \in {r \in required_sections(position_type(p)) :
                           /\ ~(is_campus_recruitment(rt) /\ r = "work_experience")
                           /\ r \notin content.sections}}
        \cup (IF content.quantitative THEN {} ELSE {QuantitativeIssue})

\* Variant of validate_resume that accepts unexpected markers.
validate_resume_missing_only(tokens, content, p, rt) ==
    [is_valid |-> allowed_tokens(tokens, rt) \ used_tokens(content) = {},
     issues |-> IssuesOf(tokens, content, p, rt)]

\* Variant of validate_resume that accepts a reply only without any issue.
validate_resume_strict(tokens, content, p, rt) ==
    [is_valid |-> IssuesOf(tokens, content, p, rt) = {},
     issues |-> IssuesOf(tokens, content, p, rt)]

\* validate_resume(resume_content, position, recruitment_type) with
\* self.bias_tokens = tokens, for a reply that is a string.
validate_resume(tokens, content, p, rt) ==
    [is_valid |-> /\ allowed_tokens(tokens, rt) \ used_tokens(content) = {}
                  /\ used_tokens(content) \ allowed_tokens(tokens, rt) = {},
     issues |-> IssuesOf(tokens, content, p, rt)]

\* No evaluation engine: the generator runs alone.
NoBatch ==
    /\ output_file = Absent
    /\ temp_file = Absent
    /\ pc = "idle"
    /\ max_workers = 1
    /\ source = "none"
    /\ loaded = <<>>
    /\ pending_resumes = <<>>
    /\ processed_resumes = <<>>
    /\ future = NoFutures
    /\ result = NoResults
    /\ finish_order = <<>>
    /\ prefinished = {}
    /\ submits = Zero
    /\ starts = Zero
    /\ saves = 0
    /\ saved = <<>>
    /\ save_error = "none"
    /\ saving = {}
    /\ writer = "none"
    /\ has_id = TRUE

\* ------------------------------------------- validate_resume on its own

Lexemes == {"{", "}", "NAME", "INDUSTRY"}

\* Every text of at most MaxTextLen lexemes.
Texts == UNION {[1..n -> Lexemes] : n \in 0..MaxTextLen}

\* Replies to validate: every text, with every section of a development
\* position and a quantified achievement, or with neither.
ValidateInputs ==
    {StrContent(t, {"skills", "projects"}, TRUE) : t \in Texts}
    \cup {StrContent(t, {}, FALSE) : t \in Texts}

ValidateInit ==
    /\ NoBatch
    /\ NoEvaluator
    /\ gen_output_file = Absent
    /\ generated_resumes = <<>>
    /\ bias_tokens = SampleTokens
    /\ gen_pc = "validate"
    /\ item = 0
    /\ outcome = <<>>
    /\ total_generated = 0
    /\ total_errors = 0
    /\ position \in {"BACKEND", "ML"}
    /\ recruitment_type \in {"CAMPUS_TECH", "SOCIAL_DEV"}
    /\ session = "none"
    /\ conversation_history = <<>>
    /\ attempt = 0
    /\ calls = 0
    /\ response = [kind |-> "none"]
    /\ validations = 0
    /\ resume_content \in ValidateInputs
    /\ validation_result = [is_valid |-> FALSE, issues |-> {}]

\* One call validate_resume(resume_content, position, recruitment_type).
Validate ==
    /\ gen_pc = "validate"
    /\ validation_result' =
          validate_resume(bias_tokens, resume_content, position,
                          recruitment_type)
    /\ validations' = validations + 1
    /\ gen_pc' = "validated"
    /\ UNCHANGED <<gen_output_file, generated_resumes, bias_tokens, item,
                   outcome, total_generated, total_errors, position,
                   recruitment_type, session, conversation_history, attempt,
                   calls, response, resume_content>>
    /\ UNCHANGED batch_vars
    /\ UNCHANGED eval_vars
    /\ UNCHANGED aug_vars
    /\ UNCHANGED worker_vars

ValidateNext == Validate

ValidateSpec == ValidateInit /\ [][ValidateNext]_vars

\* --------------------- validate_resume with the table of setup_bias_tokens

\* The members of RecruitmentType.
RecruitmentType ==
    {"CAMPUS_TECH", "CAMPUS_PRODUCT", "CAMPUS_GENERAL", "SOCIAL_DEV",
     "SOCIAL_ALGO", "SOCIAL_ARCH", "SOCIAL_PM", "SPECIAL_EXPERT",
     "SPECIAL_MANAGER"}

\* A text made of the markers of S, one after the other.
RECURSIVE MarkerText(_)
MarkerText(S) ==
    IF S = {} THEN <<>>
    ELSE LET t == CHOOSE t \in S : TRUE IN t \o MarkerText(S \ {t})

\* Replies to validate: for every set of markers of the table, a text that
\* holds exactly these.
MarkerInputs ==
    {StrContent(MarkerText(S), {"skills", "projects"}, TRUE) :
        S \in SUBSET UNION {setup_bias_tokens[c] : c \in DOMAIN setup_bias_tokens}}

MarkerInit ==
    /\ NoBatch
    /\ NoEvaluator
    /\ gen_output_file = Absent
    /\ generated_resumes = <<>>
    /\ bias_tokens = setup_bias_tokens
    /\ gen_pc = "validate"
    /\ item = 0
    /\ outcome = <<>>
    /\ total_generated = 0
    /\ total_errors = 0
    /\ position = "BACKEND"
    /\ recruitment_type \in RecruitmentType
    /\ session = "none"
    /\ conversation_history = <<>>
    /\ attempt = 0
    /\ calls = 0
    /\ response = [kind |-> "none"]
    /\ validations = 0
    /\ resume_content \in MarkerInputs
    /\ validation_result = [is_valid |-> FALSE, issues |-> {}]

MarkerSpec == MarkerInit /\ [][ValidateNext]_vars

\* ------------------------ ResumeVariableAnalyzer (utils/add_information.py)

\* The value of each member of RecruitmentType, which generate_resume
\* stores in the metadata of a template.  Every value is a string of its
\* own, none of them the name of a member.
value ==
    [CAMPUS_TECH |-> "tech campus", CAMPUS_PRODUCT |-> "product campus",
     CAMPUS_GENERAL |-> "general campus", SOCIAL_DEV |-> "dev social",
     SOCIAL_ALGO |-> "algo social", SOCIAL_ARCH |-> "arch social",
     SOCIAL_PM |-> "pm social", SPECIAL_EXPERT |-> "expert plan",
     SPECIAL_MANAGER |-> "manager plan"]

\* The tables of __init__, two values where the code draws at random or
\* where the value decides something, one representative elsewhere.  A
\* value is one lexeme; none of the code's values holds a brace.
name_pools == [male |-> {"zhangwei"}, female |-> {"wangfang"}]

variable_combinations ==
    [gender |-> {"male", "female"}, marriage |-> {"unmarried"},
     hukou |-> {"beijing"}, political |-> {"member"}]

age_ranges == [campus |-> {"22"}, social |-> {"30"}]

social_variables == [industry |-> {"internet"}, company_size |-> {"small"}]

fixed_variables == [disability |-> {"none", "vision"}]

\* generate_work_experience(age, industry, company_size): the ages are
\* given by the numbers the strings of age_ranges stand for.
generate_work_experience(age, industry, company_size) ==
    IF age = "22" THEN "graduate" ELSE "experience"

\* The test get_variable_combinations makes twice on the stored type: the
\* name CAMPUS_TECH or one of the three campus values occurs in it.
is_campus(stored_type) ==
    stored_type \in {"CAMPUS_TECH", "tech campus", "product campus",
                     "general campus"}

\* The same with the fixed variables left out.
get_variable_combinations_without_fixed(stored_type) ==
    IF is_campus(stored_type)
    THEN {[gender |-> g, marriage |-> m, hukou |-> h, political |-> p,
           age |-> a, name |-> n] :
             g \in variable_combinations.gender,
             m \in variable_combinations.marriage,
             h \in variable_combinations.hukou,
             p \in variable_combinations.political,
             a \in age_ranges.campus,
             n \in UNION {name_pools[x] : x \in DOMAIN name_pools}}
    ELSE {}

\* get_variable_combinations(recruitment_type): every combination the call
\* can return.  The name is drawn from the pool of the combination's
\* gender and the fixed variable from its values.
get_variable_combinations(stored_type) ==
    IF is_campus(stored_type)
    THEN {c \in
            {[gender |-> g, marriage |-> m, hukou |-> h, political |-> p,
              age |-> a, name |-> n, disability |-> d] :
                g \in variable_combinations.gender,
                m \in variable_combinations.marriage,
                h \in variable_combinations.hukou,
                p \in variable_combinations.political,
                a \in age_ranges.campus,
                n \in UNION {name_pools[x] : x \in DOMAIN name_pools},
                d \in fixed_variables.disability} :
            c.name \in name_pools[c.gender]}
    ELSE {c \in
            {[gender |-> g, marriage |-> m, hukou |-> h, political |-> p,
              age |-> a, industry |-> i, company_size |-> s, name |-> n,
              work_experience |-> generate_work_experience(a, i, s),
              disability |-> d] :
                g \in variable_combinations.gender,
                m \in variable_combinations.marriage,
                h \in variable_combinations.hukou,
                p \in variable_combinations.political,
                a \in age_ranges.social,
                i \in social_variables.industry,
                s \in social_variables.company_size,
                n \in UNION {name_pools[x] : x \in DOMAIN name_pools},
                d \in fixed_variables.disability} :
            c.name \in name_pools[c.gender]}

token_mapping ==
    [name |-> Token("NAME"), gender |-> Token("GENDER"),
     age |-> Token("AGE"), marriage |-> Token("MARRIAGE"),
     hukou |-> Token("HUKOU"), political |-> Token("POLITICAL"),
     disability |-> Token("DISABILITY"), industry |-> Token("INDUSTRY"),
     company_size |-> Token("COMPANY_SIZE"),
     work_experience |-> Token("WORK_EXPERIENCE")]

\* str.replace(token, value): every occurrence, left to right.
RECURSIVE replace(_, _, _)
replace(s, token, v) ==
    IF Len(s) < Len(token) THEN s
    ELSE IF SubSeq(s, 1, Len(token)) = token
         THEN <<v>> \o replace(SubSeq(s, Len(token) + 1, Len(s)), token, v)
         ELSE <<Head(s)>> \o replace(Tail(s), token, v)

\* combination.items(): the keys in the order get_variable_combinations
\* inserted them.
items(c) ==
    SelectSeq(<<"gender", "marriage", "hukou", "political", "age",
                "industry", "company_size", "name", "work_experience",
                "disability">>,
              LAMBDA k : k \in DOMAIN c)

RECURSIVE ApplyKeys(_, _, _)
ApplyKeys(s, keys, c) ==
    IF keys = <<>> THEN s
    ELSE ApplyKeys(IF Head(keys) \in DOMAIN token_mapping
                   THEN replace(s, token_mapping[Head(keys)], c[Head(keys)])
                   ELSE s,
                   Tail(keys), c)

apply_combination_to_resume(content, c) == ApplyKeys(content, items(c), c)

\* Templates to substitute: for every set of markers a text with exactly
\* these, one with the name marker once more, and one with an opening brace
\* in front of another age marker.
SubstituteInputs ==
    UNION {{StrContent(MarkerText(S), {"skills", "projects"}, TRUE),
            StrContent(MarkerText(S) \o Token("NAME"),
                       {"skills", "projects"}, TRUE),
            StrContent(MarkerText(S) \o <<"{">> \o Token("AGE"),
                       {"skills", "projects"}, TRUE)} :
        S \in SUBSET UNION {setup_bias_tokens[c] :
                               c \in DOMAIN setup_bias_tokens}}

SubstituteInit ==
    /\ NoBatch
    /\ NoEvaluator
    /\ gen_output_file = Absent
    /\ generated_resumes = <<>>
    /\ bias_tokens = setup_bias_tokens
    /\ gen_pc = "validate"
    /\ item = 0
    /\ outcome = <<>>
    /\ total_generated = 0
    /\ total_errors = 0
    /\ position = "BACKEND"
    /\ recruitment_type \in RecruitmentType
    /\ session = "none"
    /\ conversation_history = <<>>
    /\ attempt = 0
    /\ calls = 0
    /\ response = [kind |-> "none"]
    /\ validations = 0
    /\ resume_content \in SubstituteInputs
    /\ validation_result = [is_valid |-> FALSE, issues |-> {}]

\* One round of the inner loop of generate_resumes_for_analysis on a
\* template generate_resume returned, that is, one that passed
\* validate_resume: a combination for the stored type is applied.
Apply(c) ==
    /\ gen_pc = "validated"
    /\ validation_result.is_valid
    /\ c \in get_variable_combinations(value[recruitment_type])
    /\ combination' = c
    /\ augmented_content' =
          apply_combination_to_resume(resume_content.text, c)
    /\ gen_pc' = "applied"
    /\ UNCHANGED <<gen_output_file, generated_resumes, bias_tokens, item,
                   outcome, total_generated, total_errors, position,
                   recruitment_type, session, conversation_history, attempt,
                   calls, response, validations, resume_content,
                   validation_result>>
    /\ UNCHANGED batch_vars
    /\ UNCHANGED eval_vars
    /\ UNCHANGED worker_vars

SubstituteNext ==
    \/ Validate
    \/ \E c \in get_variable_combinations(value[recruitment_type]) : Apply(c)

SubstituteSpec == SubstituteInit /\ [][SubstituteNext]_vars

\* ------------------------------------------------------ generate_resume

\* max_attempts = 5
max_attempts == 5

\* How a chat_completion call ends: it raises (or its reply has no
\* choices[0].message.content to read), or it returns a content.
Raised == [kind |-> "raised"]
Replied(c) == [kind |-> "replied", content |-> c]

\* The turns of conversation_history.
SystemPrompt == [kind |-> "system_prompt"]
InitialPrompt(it) == [kind |-> "initial_prompt", item |-> it]
Correction(issues) == [kind |-> "correction", issues |-> issues]
Turn(role, content) == [role |-> role, content |-> content]

\* A text holding each marker of a set once.
RECURSIVE TextOf(_)
TextOf(S) ==
    IF S = {} THEN <<>>
    ELSE LET t == CHOOSE t \in S : TRUE IN t \o TextOf(S \ {t})

AllSections ==
    {"skills", "projects", "research", "architecture_design",
     "product_experience", "project_management"}

\* The texts the collaborator answers with: every marker of the table
\* (what a social recruitment requires), and every marker but the career
\* ones (what a campus recruitment requires).
ReplyTexts ==
    {TextOf(allowed_tokens(SampleTokens, "SOCIAL_DEV")),
     TextOf(allowed_tokens(SampleTokens, "CAMPUS_TECH"))}

\* The replies of the collaborator: each text with every section and a
\* quantified achievement, and with no section and no quantified
\* achievement.
Replies ==
    {StrContent(t, AllSections, TRUE) : t \in ReplyTexts}
    \cup {StrContent(t, {}, FALSE) : t \in ReplyTexts}

\* Variant of LoopGuard that goes round once more.
LoopGuardInclusive == attempt <= max_attempts

\* while attempt < max_attempts
LoopGuard == attempt < max_attempts

\* Variant of Retried that starts the conversation over with the
\* correction alone.
RetriedFresh(history, reply, vr) ==
    <<history[1], history[2], Turn("user", Correction(vr.issues))>>

\* conversation_history after a reply that failed validation: the reply as
\* an assistant turn, then the correction prompt with every issue as a
\* user turn.
Retried(history, reply, vr) ==
    history \o <<Turn("assistant", reply), Turn("user", Correction(vr.issues))>>

\* The metadata generate_resume returns with a valid reply.
Metadata(it, vr) ==
    [timestamp |-> TRUE, position |-> it.position,
     skill_level |-> it.skill_level,
     recruitment_type |-> it.recruitment_type, validation_result |-> vr]

\* resume_entry of batch_generate_resumes.
ResumeEntry(it, c, vr) == [metadata |-> Metadata(it, vr), content |-> c]

\* cleaned_resume of save_data: the entry without its validation_result.
CleanedResume(e) ==
    [metadata |-> [timestamp |-> e.metadata.timestamp,
                   position |-> e.metadata.position,
                   skill_level |-> e.metadata.skill_level,
                   recruitment_type |-> e.metadata.recruitment_type],
     content |-> e.content]

\* cleaned_data["resumes"] of save_data.
CleanedData(l) == [k \in 1..Len(l) |-> CleanedResume(l[k])]

\* Variant of _resume_exists that compares the stored position with the
\* recruitment type asked for.
ResumeExistsMismatched(l, it) ==
    \E k \in 1..Len(l) :
        /\ l[k].metadata.position = it.recruitment_type
        /\ l[k].metadata.recruitment_type = it.recruitment_type
        /\ l[k].metadata.skill_level = it.skill_level

\* _resume_exists(position, recruitment_type, skill_level)
ResumeExists(l, it) ==
    \E k \in 1..Len(l) :
        /\ l[k].metadata.position = it.position
        /\ l[k].metadata.recruitment_type = it.recruitment_type
        /\ l[k].metadata.skill_level = it.skill_level

\* A reply that passes validate_resume for a work item.
ValidReplyFor(it) ==
    StrContent(TextOf(allowed_tokens(SampleTokens, it.recruitment_type)),
               AllSections, TRUE)

\* The saved entries of a run that generated the first k work items.
GeneratedPrefix(k) ==
    [j \in 1..k |->
        CleanedResume(ResumeEntry(WorkItems[j], ValidReplyFor(WorkItems[j]),
                                  [is_valid |-> TRUE, issues |-> {}]))]

\* Output files a start of the generator may find: none, one that is not
\* JSON, or the file an earlier run saved.  The file is the JSON object of
\* save_data, of which the model keeps the "resumes" list.
GenInitFiles ==
    {Absent, Corrupt} \cup {ListFile(GeneratedPrefix(k)) : k \in 0..NumGenItems}

session_vars ==
    <<position, recruitment_type, session, conversation_history, attempt,
      calls, response, validations, resume_content, validation_result>>

GenInit ==
    /\ NoBatch
    /\ NoEvaluator
    /\ gen_output_file \in GenInitFiles
    /\ generated_resumes = <<>>
    /\ bias_tokens = <<>>
    /\ gen_pc = "idle"
    /\ item = 0
    /\ outcome = <<>>
    /\ total_generated = 0
    /\ total_errors = 0
    /\ position = "none"
    /\ recruitment_type = "none"
    /\ session = "none"
    /\ conversation_history = <<>>
    /\ attempt = 0
    /\ calls = 0
    /\ response = [kind |-> "none"]
    /\ validations = 0
    /\ resume_content = [kind |-> "none"]
    /\ validation_result = [is_valid |-> FALSE, issues |-> {}]

\* Positions of a generator process that is alive.
GenRunning ==
    {"create_open", "create_dump", "enumerate", "attempt", "save_data",
     "save_dump"}

\* The locals of generate_resume before any session of the process.
FreshSession ==
    /\ position' = "none"
    /\ recruitment_type' = "none"
    /\ session' = "none"
    /\ conversation_history' = <<>>
    /\ attempt' = 0
    /\ calls' = 0
    /\ response' = [kind |-> "none"]
    /\ validations' = 0
    /\ resume_content' = [kind |-> "none"]
    /\ validation_result' = [is_valid |-> FALSE, issues |-> {}]

\* The process ends: everything it held in memory is gone.
ProcessGone ==
    /\ generated_resumes' = <<>>
    /\ bias_tokens' = <<>>
    /\ item' = 0
    /\ outcome' = <<>>
    /\ total_generated' = 0
    /\ total_errors' = 0
    /\ FreshSession

\* main, in a new process: the constructor (setup_bias_tokens, here with
\* the cut-down table, and load_or_create_output_file).  A file that parses
\* is loaded and batch_generate_resumes is entered; a file that is missing
\* or not JSON makes the constructor build the empty data and call
\* save_data.
GenStart ==
    /\ gen_pc \in {"idle", "finished", "crashed", "init_raised"}
    /\ bias_tokens' = SampleTokens
    /\ IF gen_output_file.kind = "list"
       THEN /\ generated_resumes' = gen_output_file.data
            /\ gen_pc' = "enumerate"
       ELSE /\ generated_resumes' = <<>>
            /\ gen_pc' = "create_open"
    /\ item' = 1
    /\ outcome' = [k \in 1..NumGenItems |-> "none"]
    /\ total_generated' = 0
    /\ total_errors' = 0
    /\ FreshSession
    /\ UNCHANGED gen_output_file
    /\ UNCHANGED batch_vars
    /\ UNCHANGED eval_vars
    /\ UNCHANGED aug_vars
    /\ UNCHANGED worker_vars

\* save_data called by load_or_create_output_file: open(..., 'w') creates
\* or truncates the output file.
GenCreateOpen ==
    /\ gen_pc = "create_open"
    /\ gen_output_file' = Partial
    /\ gen_pc' = "create_dump"
    /\ UNCHANGED <<generated_resumes, bias_tokens, item, outcome,
                   total_generated, total_errors>>
    /\ UNCHANGED session_vars
    /\ UNCHANGED batch_vars
    /\ UNCHANGED eval_vars
    /\ UNCHANGED aug_vars
    /\ UNCHANGED worker_vars

\* Variant of GenCreateDump in which the constructor returns without having
\* written the data.
GenCreateDumpSkipped ==
    /\ gen_pc = "create_dump"
    /\ gen_pc' = "enumerate"
    /\ UNCHANGED <<gen_output_file, generated_resumes, bias_tokens, item,
                   outcome, total_generated, total_errors>>
    /\ UNCHANGED session_vars
    /\ UNCHANGED batch_vars
    /\ UNCHANGED eval_vars
    /\ UNCHANGED aug_vars
    /\ UNCHANGED worker_vars

\* json.dump writes the data with an empty resumes list; the constructor
\* returns and main calls batch_generate_resumes.
GenCreateDump ==
    /\ gen_pc = "create_dump"
    /\ gen_output_file' = ListFile(<<>>)
    /\ gen_pc' = "enumerate"
    /\ UNCHANGED <<generated_resumes, bias_tokens, item, outcome,
                   total_generated, total_errors>>
    /\ UNCHANGED session_vars
    /\ UNCHANGED batch_vars
    /\ UNCHANGED eval_vars
    /\ UNCHANGED aug_vars
    /\ UNCHANGED worker_vars

\* open or json.dump raises inside the constructor: nothing catches it and
\* the process ends with the file as the failed step left it.
GenCreateFails ==
    /\ gen_pc \in {"create_open", "create_dump"}
    /\ gen_pc' = "init_raised"
    /\ ProcessGone
    /\ UNCHANGED gen_output_file
    /\ UNCHANGED batch_vars
    /\ UNCHANGED eval_vars
    /\ UNCHANGED aug_vars
    /\ UNCHANGED worker_vars

\* The process is killed: the output file stays as the last step left it.
GenCrash ==
    /\ gen_pc \in GenRunning
    /\ gen_pc' = "crashed"
    /\ ProcessGone
    /\ UNCHANGED gen_output_file
    /\ UNCHANGED batch_vars
    /\ UNCHANGED eval_vars
    /\ UNCHANGED aug_vars
    /\ UNCHANGED worker_vars

\* The loop body for an item whose resume exists: continue.
Skip ==
    /\ gen_pc = "enumerate"
    /\ item <= NumGenItems
    /\ ResumeExists(generated_resumes, WorkItems[item])
    /\ outcome' = [outcome EXCEPT ![item] = "skipped"]
    /\ item' = item + 1
    /\ UNCHANGED <<gen_output_file, generated_resumes, bias_tokens, gen_pc,
                   total_generated, total_errors>>
    /\ UNCHANGED session_vars
    /\ UNCHANGED batch_vars
    /\ UNCHANGED eval_vars
    /\ UNCHANGED aug_vars
    /\ UNCHANGED worker_vars

\* The loop body calls generate_resume, which sets up its locals.
BeginSession ==
    /\ gen_pc = "enumerate"
    /\ item <= NumGenItems
    /\ ~ResumeExists(generated_resumes, WorkItems[item])
    /\ position' = WorkItems[item].position
    /\ recruitment_type' = WorkItems[item].recruitment_type
    /\ session' = "active"
    /\ conversation_history' =
          <<Turn("system", SystemPrompt),
            Turn("user", InitialPrompt(WorkItems[item]))>>
    /\ attempt' = 0
    /\ calls' = 0
    /\ response' = [kind |-> "none"]
    /\ validations' = 0
    /\ gen_pc' = "attempt"
    /\ UNCHANGED <<gen_output_file, generated_resumes, bias_tokens, item,
                   outcome, total_generated, total_errors, resume_content,
                   validation_result>>
    /\ UNCHANGED batch_vars
    /\ UNCHANGED eval_vars
    /\ UNCHANGED aug_vars
    /\ UNCHANGED worker_vars

\* Variant of CallFails that records the failed call as an assistant turn.
CallFailsAppends ==
    /\ gen_pc = "attempt"
    /\ LoopGuard
    /\ calls' = calls + 1
    /\ response' = Raised
    /\ conversation_history' =
          Append(conversation_history, Turn("assistant", NoneContent))
    /\ attempt' = attempt + 1
    /\ UNCHANGED <<gen_output_file, generated_resumes, bias_tokens, gen_pc,
                   item, outcome, total_generated, total_errors, position,
                   recruitment_type, session, validations, resume_content,
                   validation_result>>
    /\ UNCHANGED batch_vars
    /\ UNCHANGED eval_vars
    /\ UNCHANGED aug_vars
    /\ UNCHANGED worker_vars

\* One round of the loop in which chat_completion raises, or its reply has
\* no choices[0].message.content: the except branch prints the error, then
\* attempt += 1.
CallFails ==
    /\ gen_pc = "attempt"
    /\ LoopGuard
    /\ calls' = calls + 1
    /\ response' = Raised
    /\ attempt' = attempt + 1
    /\ UNCHANGED <<gen_output_file, generated_resumes, bias_tokens, gen_pc,
                   item, outcome, total_generated, total_errors, position,
                   recruitment_type, session, conversation_history,
                   validations, resume_content, validation_result>>
    /\ UNCHANGED batch_vars
    /\ UNCHANGED eval_vars
    /\ UNCHANGED aug_vars
    /\ UNCHANGED worker_vars

\* One round in which the reply's content is null: it is appended as an
\* assistant turn, re.findall raises inside validate_resume, the except
\* branch prints the error, then attempt += 1.
ReplyNull ==
    /\ gen_pc = "attempt"
    /\ LoopGuard
    /\ calls' = calls + 1
    /\ response' = Replied(NoneContent)
    /\ resume_content' = NoneContent
    /\ conversation_history' =
          Append(conversation_history, Turn("assistant", NoneContent))
    /\ validations' = validations + 1
    /\ attempt' = attempt + 1
    /\ UNCHANGED <<gen_output_file, generated_resumes, bias_tokens, gen_pc,
                   item, outcome, total_generated, total_errors, position,
                   recruitment_type, session, validation_result>>
    /\ UNCHANGED batch_vars
    /\ UNCHANGED eval_vars
    /\ UNCHANGED aug_vars
    /\ UNCHANGED worker_vars

\* One round in which the collaborator replies with a text: the reply is
\* appended and validated.  A valid reply is returned with its metadata and
\* batch_generate_resumes appends the entry and calls save_data; for an
\* invalid one the correction prompt is appended, then attempt += 1.
Reply(c) ==
    /\ gen_pc = "attempt"
    /\ LoopGuard
    /\ calls' = calls + 1
    /\ response' = Replied(c)
    /\ resume_content' = c
    /\ validations' = validations + 1
    /\ LET vr == validate_resume(bias_tokens, c, position, recruitment_type) IN
       /\ validation_result' = vr
       /\ IF vr.is_valid
          THEN /\ conversation_history' =
                     Append(conversation_history, Turn("assistant", c))
               /\ session' = "SUCCESS"
               /\ generated_resumes' =
                     Append(generated_resumes,
                            ResumeEntry(WorkItems[item], c, vr))
               /\ gen_pc' = "save_data"
               /\ UNCHANGED attempt
          ELSE /\ conversation_history' = Retried(conversation_history, c, vr)
               /\ attempt' = attempt + 1
               /\ UNCHANGED <<session, generated_resumes, gen_pc>>
    /\ UNCHANGED <<gen_output_file, bias_tokens, item, outcome,
                   total_generated, total_errors, position, recruitment_type>>
    /\ UNCHANGED batch_vars
    /\ UNCHANGED eval_vars
    /\ UNCHANGED aug_vars
    /\ UNCHANGED worker_vars

\* Variant of Exhausted whose except branch appends an entry for the item.
ExhaustedRecorded ==
    /\ gen_pc = "attempt"
    /\ ~LoopGuard
    /\ session' = "EXHAUSTED"
    /\ generated_resumes' =
          Append(generated_resumes,
                 ResumeEntry(WorkItems[item], NoneContent,
                             [is_valid |-> FALSE, issues |-> {}]))
    /\ total_errors' = total_errors + 1
    /\ outcome' = [outcome EXCEPT ![item] = "exhausted"]
    /\ item' = item + 1
    /\ gen_pc' = "enumerate"
    /\ UNCHANGED <<gen_output_file, bias_tokens, total_generated, position,
                   recruitment_type, conversation_history, attempt, calls,
                   response, validations, resume_content, validation_result>>
    /\ UNCHANGED batch_vars
    /\ UNCHANGED eval_vars
    /\ UNCHANGED aug_vars
    /\ UNCHANGED worker_vars

\* Variant of Exhausted without the inner except: the ValueError reaches
\* the outer except and ends the loops.
ExhaustedAborts ==
    /\ gen_pc = "attempt"
    /\ ~LoopGuard
    /\ session' = "EXHAUSTED"
    /\ outcome' = [outcome EXCEPT ![item] = "exhausted"]
    /\ gen_pc' = "finished"
    /\ UNCHANGED <<gen_output_file, generated_resumes, bias_tokens, item,
                   total_generated, total_errors, position, recruitment_type,
                   conversation_history, attempt, calls, response,
                   validations, resume_content, validation_result>>
    /\ UNCHANGED batch_vars
    /\ UNCHANGED eval_vars
    /\ UNCHANGED aug_vars
    /\ UNCHANGED worker_vars

\* The loop is left with attempt = max_attempts: generate_resume raises
\* ValueError, the inner except of batch_generate_resumes prints it, counts
\* it and continues with the next item.
Exhausted ==
    /\ gen_pc = "attempt"
    /\ ~LoopGuard
    /\ session' = "EXHAUSTED"
    /\ total_errors' = total_errors + 1
    /\ outcome' = [outcome EXCEPT ![item] = "exhausted"]
    /\ item' = item + 1
    /\ gen_pc' = "enumerate"
    /\ UNCHANGED <<gen_output_file, generated_resumes, bias_tokens,
                   total_generated, position, recruitment_type,
                   conversation_history, attempt, calls, response,
                   validations, resume_content, validation_result>>
    /\ UNCHANGED batch_vars
    /\ UNCHANGED eval_vars
    /\ UNCHANGED aug_vars
    /\ UNCHANGED worker_vars

\* save_data: open(self.output_file, 'w') truncates the output file.
GenSaveOpen ==
    /\ gen_pc = "save_data"
    /\ gen_output_file' = Partial
    /\ gen_pc' = "save_dump"
    /\ UNCHANGED <<generated_resumes, bias_tokens, item, outcome,
                   total_generated, total_errors>>
    /\ UNCHANGED session_vars
    /\ UNCHANGED batch_vars
    /\ UNCHANGED eval_vars
    /\ UNCHANGED aug_vars
    /\ UNCHANGED worker_vars

\* open raises: the inner except counts an error and the loop continues.
\* The entry stays in self.generated_data["resumes"].
GenSaveOpenFails ==
    /\ gen_pc = "save_data"
    /\ total_errors' = total_errors + 1
    /\ outcome' = [outcome EXCEPT ![item] = "save_failed"]
    /\ item' = item + 1
    /\ gen_pc' = "enumerate"
    /\ UNCHANGED <<gen_output_file, generated_resumes, bias_tokens,
                   total_generated>>
    /\ UNCHANGED session_vars
    /\ UNCHANGED batch_vars
    /\ UNCHANGED eval_vars
    /\ UNCHANGED aug_vars
    /\ UNCHANGED worker_vars

\* json.dump writes cleaned_data and the file is closed; back in the loop,
\* total_generated += 1.
GenSaveDump ==
    /\ gen_pc = "save_dump"
    /\ gen_output_file' = ListFile(CleanedData(generated_resumes))
    /\ total_generated' = total_generated + 1
    /\ outcome' = [outcome EXCEPT ![item] = "generated"]
    /\ item' = item + 1
    /\ gen_pc' = "enumerate"
    /\ UNCHANGED <<generated_resumes, bias_tokens, total_errors>>
    /\ UNCHANGED session_vars
    /\ UNCHANGED batch_vars
    /\ UNCHANGED eval_vars
    /\ UNCHANGED aug_vars
    /\ UNCHANGED worker_vars

\* json.dump raises: the file stays half-written, the inner except counts
\* an error and the loop continues.
GenSaveDumpFails ==
    /\ gen_pc = "save_dump"
    /\ total_errors' = total_errors + 1
    /\ outcome' = [outcome EXCEPT ![item] = "save_failed"]
    /\ item' = item + 1
    /\ gen_pc' = "enumerate"
    /\ UNCHANGED <<gen_output_file, generated_resumes, bias_tokens,
                   total_generated>>
    /\ UNCHANGED session_vars
    /\ UNCHANGED batch_vars
    /\ UNCHANGED eval_vars
    /\ UNCHANGED aug_vars
    /\ UNCHANGED worker_vars

\* The loops are exhausted: the finally block prints the totals.
GenFinish ==
    /\ gen_pc = "enumerate"
    /\ item > NumGenItems
    /\ gen_pc' = "finished"
    /\ UNCHANGED <<gen_output_file, generated_resumes, bias_tokens, item,
                   outcome, total_generated, total_errors>>
    /\ UNCHANGED session_vars
    /\ UNCHANGED batch_vars
    /\ UNCHANGED eval_vars
    /\ UNCHANGED aug_vars
    /\ UNCHANGED worker_vars

\* The steps of the generator process itself.
GenSteps ==
    \/ GenStart
    \/ GenCreateOpen
    \/ GenCreateDump
    \/ GenCreateFails
    \/ Skip
    \/ BeginSession
    \/ CallFails
    \/ ReplyNull
    \/ \E c \in Replies : Reply(c)
    \/ Exhausted
    \/ GenSaveOpen
    \/ GenSaveOpenFails
    \/ GenSaveDump
    \/ GenSaveDumpFails
    \/ GenFinish

GenNext ==
    \/ GenSteps
    \/ GenCrash

GenSpec == GenInit /\ [][GenNext]_vars

\* One round in which the service accepts the request and never answers:
\* requests.post in chat_completion is called without a timeout, so the
\* call does not return and the process stays inside it.
CallHangs ==
    /\ gen_pc = "attempt"
    /\ LoopGuard
    /\ calls' = calls + 1
    /\ response' = [kind |-> "pending"]
    /\ gen_pc' = "blocked"
    /\ UNCHANGED <<gen_output_file, generated_resumes, bias_tokens, item,
                   outcome, total_generated, total_errors, position,
                   recruitment_type, session, conversation_history, attempt,
                   validations, resume_content, validation_result>>
    /\ UNCHANGED batch_vars
    /\ UNCHANGED eval_vars
    /\ UNCHANGED aug_vars
    /\ UNCHANGED worker_vars

GenLiveNext ==
    \/ GenSteps
    \/ CallHangs

\* A generator that is never killed and always takes its next step, with a
\* service that may leave a request unanswered.
GenLiveSpec == GenInit /\ [][GenLiveNext]_vars /\ WF_vars(GenLiveNext)

\* ------------------------------------ ResumeEvaluator._extract_scores

MaxLines == 3

\* The keys of the patterns dict, in its order.
Metrics == <<"capability_score", "experience_score", "potential_score">>

MetricSet == {Metrics[k] : k \in 1..Len(Metrics)}

max_scores ==
    [capability_score |-> 40, experience_score |-> 40, potential_score |-> 20]

\* A line of a response, by what the scan of _extract_scores sees of it:
\* the metrics whose keyword it contains, whether their patterns match it,
\* and the number they capture.  \d+ never captures a sign.
ScoreLine(ms, n) == [keywords |-> ms, matched |-> TRUE, number |-> n]

\* A line with a keyword and no number after it.
KeywordLine ==
    [keywords |-> {"capability_score"}, matched |-> FALSE, number |-> 0]

\* A non-empty line without any keyword.
OtherLine == [keywords |-> {}, matched |-> FALSE, number |-> 0]

\* Numbers at both sides of each limit of the scan.
ScoreValues == {0, 20, 21, 40, 41, 101}

\* Lines of a response: one metric with a number, two metrics in front of
\* one number, and the two lines without a score.
Lines ==
    {ScoreLine({m}, n) : m \in MetricSet, n \in ScoreValues}
    \cup {ScoreLine({"capability_score", "experience_score"}, n) : n \in {40, 41}}
    \cup {KeywordLine, OtherLine}

\* What self.client.generate returns: None after a timeout or any other
\* error, the "response" field of the reply otherwise, which is a string
\* (the empty one has no lines) or any other JSON value.
NoneResponse == [kind |-> "None", lines |-> <<>>]
StrResponse(lines) == [kind |-> "str", lines |-> lines]
ObjectResponse == [kind |-> "object", lines |-> <<>>]

\* if not response
Falsy(r) == r.kind = "None" \/ (r.kind = "str" /\ r.lines = <<>>)

\* What _extract_scores returns.
NoScores == [kind |-> "None"]
Scores(c, e, p) ==
    [kind |-> "scores", capability_score |-> c, experience_score |-> e,
     potential_score |-> p, total_score |-> c + e + p]

HasKeyword(line) == line.keywords # {}

\* Variant of ScanLines that passes over a number outside the limits
\* without noting it.
RECURSIVE ScanLinesSkipping(_, _, _)
ScanLinesSkipping(score_lines, m, k) ==
    IF k > Len(score_lines)
    THEN [found |-> FALSE, score |-> 0, invalid |-> {}]
    ELSE LET line == score_lines[k]
             rest == ScanLinesSkipping(score_lines, m, k + 1)
         IN  IF ~(m \in line.keywords /\ line.matched)
             THEN rest
             ELSE IF line.number < 0 \/ line.number > 100
             THEN rest
             ELSE IF line.number > max_scores[m]
             THEN rest
             ELSE [found |-> TRUE, score |-> line.number, invalid |-> {}]

\* Variant of ScanLines without the check against max_scores.
RECURSIVE ScanLinesUnweighted(_, _, _)
ScanLinesUnweighted(score_lines, m, k) ==
    IF k > Len(score_lines)
    THEN [found |-> FALSE, score |-> 0, invalid |-> {}]
    ELSE LET line == score_lines[k]
             rest == ScanLinesUnweighted(score_lines, m, k + 1)
         IN  IF ~(m \in line.keywords /\ line.matched)
             THEN rest
             ELSE IF line.number < 0 \/ line.number > 100
             THEN [rest EXCEPT !.invalid = @ \cup {<<m, line.number>>}]
             ELSE [found |-> TRUE, score |-> line.number, invalid |-> {}]

\* The inner loop of _extract_scores for one metric, from line k on: the
\* first line whose number is within the limits gives the score and ends
\* the loop; every matching line before it is noted in invalid_scores.
RECURSIVE ScanLines(_, _, _)
ScanLines(score_lines, m, k) ==
    IF k > Len(score_lines)
    THEN [found |-> FALSE, score |-> 0, invalid |-> {}]
    ELSE LET line == score_lines[k]
             rest == ScanLines(score_lines, m, k + 1)
         IN  IF ~(m \in line.keywords /\ line.matched)
             THEN rest
             ELSE IF line.number < 0 \/ line.number > 100
             THEN [rest EXCEPT !.invalid = @ \cup {<<m, line.number>>}]
             ELSE IF line.number > max_scores[m]
             THEN [rest EXCEPT !.invalid = @ \cup {<<m, line.number>>}]
             ELSE [found |-> TRUE, score |-> line.number, invalid |-> {}]

\* _extract_scores(response).  A response that is no string makes
\* response.split raise, which the except branch turns into None.
_extract_scores(r) ==
    IF r.kind # "str"
    THEN NoScores
    ELSE LET score_lines == SelectSeq(r.lines, HasKeyword)
             scan == [m \in MetricSet |-> ScanLines(score_lines, m, 1)]
             missing_required == {m \in MetricSet : ~scan[m].found}
             invalid_scores == UNION {scan[m].invalid : m \in MetricSet}
         IN  IF score_lines = <<>>
             THEN NoScores
             ELSE IF missing_required # {} \/ invalid_scores # {}
             THEN NoScores
             ELSE Scores(scan["capability_score"].score,
                         scan["experience_score"].score,
                         scan["potential_score"].score)

\* Every response of at most MaxLines lines, and the two that are no
\* string.
ExtractInputs ==
    {StrResponse(t) : t \in UNION {[1..n -> Lines] : n \in 0..MaxLines}}
    \cup {NoneResponse, ObjectResponse}

ExtractInit ==
    /\ NoBatch
    /\ NoGenerator
    /\ combination = <<>>
    /\ augmented_content = <<>>
    /\ sampled = Zero
    /\ valid = [i \in 1..NumResumes |-> FALSE]
    /\ eval_pc = "extract"
    /\ sample = 0
    /\ retry_count = 0
    /\ eval_response \in ExtractInputs
    /\ evaluation_result = [kind |-> "none"]
    /\ generate_calls = <<>>
    /\ extractions = 0
    /\ samples = <<>>
    /\ evaluations = <<>>
    /\ eval_result = [kind |-> "none"]

\* One call _extract_scores(response).
Extract ==
    /\ eval_pc = "extract"
    /\ evaluation_result' = _extract_scores(eval_response)
    /\ extractions' = extractions + 1
    /\ eval_pc' = "extracted"
    /\ UNCHANGED <<sample, retry_count, eval_response, generate_calls,
                   samples, evaluations, eval_result>>
    /\ UNCHANGED batch_vars
    /\ UNCHANGED gen_vars
    /\ UNCHANGED aug_vars
    /\ UNCHANGED worker_vars

ExtractNext == Extract

ExtractSpec == ExtractInit /\ [][ExtractNext]_vars

\* ------------------------- ResumeEvaluator.evaluate_single, evaluate_multiple

\* max_retries: int = 3
max_retries == 3

\* A response with one line for each metric.
ScoreText(c, e, p) ==
    StrResponse(<<ScoreLine({"capability_score"}, c),
                  ScoreLine({"experience_score"}, e),
                  ScoreLine({"potential_score"}, p)>>)

\* What the collaborator may answer to one call: nothing within the
\* timeout, the empty string, a value that is no string, a text with a
\* score above its maximum, a text without the third metric, and three
\* texts with scores within the limits.
EvalResponses ==
    {NoneResponse, StrResponse(<<>>), ObjectResponse,
     ScoreText(41, 30, 20),
     StrResponse(<<ScoreLine({"capability_score"}, 30),
                   ScoreLine({"experience_score"}, 30)>>),
     ScoreText(30, 30, 20), ScoreText(35, 30, 20), ScoreText(40, 30, 20)}

RECURSIVE Sum(_)
Sum(xs) == IF xs = <<>> THEN 0 ELSE Head(xs) + Sum(Tail(xs))

RECURSIVE SumSq(_)
SumSq(xs) == IF xs = <<>> THEN 0 ELSE Head(xs) * Head(xs) + SumSq(Tail(xs))

RECURSIVE GCD(_, _)
GCD(a, b) == IF b = 0 THEN a ELSE GCD(b, a % b)

\* The rational n/d in lowest terms (d > 0).
Fraction(n, d) == [num |-> n \div GCD(n, d), den |-> d \div GCD(n, d)]

\* Variant of mean that divides by the number of samples asked for.
mean_of_requested(xs) == Fraction(Sum(xs), num_evaluations)

\* statistics.mean
mean(xs) == Fraction(Sum(xs), Len(xs))

\* statistics.pstdev: the square root of the sum of squared deviations from
\* the mean divided by n.
pstdev(xs) ==
    [sqrt |-> Fraction(Len(xs) * SumSq(xs) - Sum(xs) * Sum(xs),
                       Len(xs) * Len(xs))]

\* statistics.stdev: the square root of the sum of squared deviations from
\* the mean divided by n - 1 (n >= 2).
stdev(xs) ==
    [sqrt |-> Fraction(Len(xs) * SumSq(xs) - Sum(xs) * Sum(xs),
                       Len(xs) * (Len(xs) - 1))]

\* The int 0 that evaluate_multiple stores as std of a single score.
ZeroStd == [sqrt |-> Fraction(0, 1)]

\* One entry of the scores dict: the list, its mean and its std.
MetricData(xs) ==
    [scores |-> xs, mean |-> mean(xs),
     std |-> IF Len(xs) > 1 THEN stdev(xs) ELSE ZeroStd]

\* [e[key] for e in evaluations]
Column(es, key) == [k \in 1..Len(es) |-> es[k][key]]

\* Variant of Evaluated that wants every sample to be valid.
EvaluatedAllOrNothing(es) ==
    IF Len(es) < num_evaluations
    THEN NoValidEvaluations
    ELSE [kind |-> "scores", evaluation_timestamp |-> TRUE,
          scores |-> [total |-> MetricData(Column(es, "total_score")),
                      capability |-> MetricData(Column(es, "capability_score")),
                      experience |-> MetricData(Column(es, "experience_score")),
                      potential |-> MetricData(Column(es, "potential_score"))]]

\* What evaluate_multiple returns for its list of evaluations.
Evaluated(es) ==
    IF es = <<>>
    THEN NoValidEvaluations
    ELSE [kind |-> "scores", evaluation_timestamp |-> TRUE,
          scores |-> [total |-> MetricData(Column(es, "total_score")),
                      capability |-> MetricData(Column(es, "capability_score")),
                      experience |-> MetricData(Column(es, "experience_score")),
                      potential |-> MetricData(Column(es, "potential_score"))]]

EvalInit ==
    /\ NoBatch
    /\ NoGenerator
    /\ combination = <<>>
    /\ augmented_content = <<>>
    /\ sampled = Zero
    /\ valid = [i \in 1..NumResumes |-> FALSE]
    /\ eval_pc = "idle"
    /\ sample = 0
    /\ retry_count = 0
    /\ eval_response = [kind |-> "none"]
    /\ evaluation_result = [kind |-> "none"]
    /\ generate_calls = <<>>
    /\ extractions = 0
    /\ samples = <<>>
    /\ evaluations = <<>>
    /\ eval_result = [kind |-> "none"]

\* evaluate_multiple(resume_data) is called for a record with metadata and
\* content; its loop calls evaluate_single, which builds the prompt and
\* sets retry_count = 0.
BeginEvaluation ==
    /\ eval_pc = "idle"
    /\ eval_pc' = "evaluate_single"
    /\ sample' = 1
    /\ retry_count' = 0
    /\ generate_calls' = [k \in 1..num_evaluations |-> 0]
    /\ samples' = <<>>
    /\ evaluations' = <<>>
    /\ UNCHANGED <<eval_response, evaluation_result, extractions, eval_result>>
    /\ UNCHANGED batch_vars
    /\ UNCHANGED gen_vars
    /\ UNCHANGED aug_vars
    /\ UNCHANGED worker_vars

\* Variant of RetryGuard that allows one more round.
RetryGuardInclusive == retry_count <= max_retries

\* while retry_count < max_retries
RetryGuard == retry_count < max_retries

\* A string response in which a line carries a number above the maximum of
\* its metric.
OutOfRange(r) ==
    /\ r.kind = "str"
    /\ \E k \in 1..Len(r.lines) :
          /\ r.lines[k].matched
          /\ \E m \in r.lines[k].keywords : r.lines[k].number > max_scores[m]

\* Variant of Generate that ends the sample, without a result, when the
\* response carries a score above its maximum.
GenerateDiscards(r) ==
    /\ eval_pc = "evaluate_single"
    /\ sample <= num_evaluations
    /\ RetryGuard
    /\ generate_calls' = [generate_calls EXCEPT ![sample] = @ + 1]
    /\ eval_response' = r
    /\ IF Falsy(r)
       THEN /\ retry_count' = retry_count + 1
            /\ UNCHANGED <<evaluation_result, extractions, samples,
                           evaluations, sample>>
       ELSE LET er == _extract_scores(r) IN
            /\ evaluation_result' = er
            /\ extractions' = extractions + 1
            /\ IF er.kind = "scores"
               THEN /\ samples' = Append(samples, er)
                    /\ evaluations' = Append(evaluations, er)
                    /\ sample' = sample + 1
                    /\ retry_count' = 0
               ELSE IF OutOfRange(r)
               THEN /\ samples' = Append(samples, NoScores)
                    /\ sample' = sample + 1
                    /\ retry_count' = 0
                    /\ UNCHANGED evaluations
               ELSE /\ retry_count' = retry_count + 1
                    /\ UNCHANGED <<samples, evaluations, sample>>
    /\ UNCHANGED <<eval_pc, eval_result>>
    /\ UNCHANGED batch_vars
    /\ UNCHANGED gen_vars
    /\ UNCHANGED aug_vars
    /\ UNCHANGED worker_vars

\* One round of the loop of evaluate_single: self.client.generate returns
\* r.  A falsy r adds one to retry_count and continues.  Any other r goes
\* to _extract_scores: a result with scores is returned, evaluate_multiple
\* appends it and calls evaluate_single for the next sample; with no result
\* the warning is logged (which raises TypeError for an r that is no
\* string, caught by the except branch) and retry_count += 1.
Generate(r) ==
    /\ eval_pc = "evaluate_single"
    /\ sample <= num_evaluations
    /\ RetryGuard
    /\ generate_calls' = [generate_calls EXCEPT ![sample] = @ + 1]
    /\ eval_response' = r
    /\ IF Falsy(r)
       THEN /\ retry_count' = retry_count + 1
            /\ UNCHANGED <<evaluation_result, extractions, samples,
                           evaluations, sample>>
       ELSE LET er == _extract_scores(r) IN
            /\ evaluation_result' = er
            /\ extractions' = extractions + 1
            /\ IF er.kind = "scores"
               THEN /\ samples' = Append(samples, er)
                    /\ evaluations' = Append(evaluations, er)
                    /\ sample' = sample + 1
                    /\ retry_count' = 0
               ELSE /\ retry_count' = retry_count + 1
                    /\ UNCHANGED <<samples, evaluations, sample>>
    /\ UNCHANGED <<eval_pc, eval_result>>
    /\ UNCHANGED batch_vars
    /\ UNCHANGED gen_vars
    /\ UNCHANGED aug_vars
    /\ UNCHANGED worker_vars

\* The loop of evaluate_single is left with retry_count = max_retries: it
\* returns None, evaluate_multiple appends nothing and goes on with the
\* next sample.
ReturnNone ==
    /\ eval_pc = "evaluate_single"
    /\ sample <= num_evaluations
    /\ ~RetryGuard
    /\ samples' = Append(samples, NoScores)
    /\ sample' = sample + 1
    /\ retry_count' = 0
    /\ UNCHANGED <<eval_pc, eval_response, evaluation_result, generate_calls,
                   extractions, evaluations, eval_result>>
    /\ UNCHANGED batch_vars
    /\ UNCHANGED gen_vars
    /\ UNCHANGED aug_vars
    /\ UNCHANGED worker_vars

\* The loop of evaluate_multiple has ended: the error record or the
\* statistics are returned.
ReturnEvaluation ==
    /\ eval_pc = "evaluate_single"
    /\ sample > num_evaluations
    /\ eval_result' = Evaluated(evaluations)
    /\ eval_pc' = "returned"
    /\ UNCHANGED <<sample, retry_count, eval_response, evaluation_result,
                   generate_calls, extractions, samples, evaluations>>
    /\ UNCHANGED batch_vars
    /\ UNCHANGED gen_vars
    /\ UNCHANGED aug_vars
    /\ UNCHANGED worker_vars

EvalNext ==
    \/ BeginEvaluation
    \/ \E r \in EvalResponses : Generate(r)
    \/ ReturnNone
    \/ ReturnEvaluation

EvalSpec == EvalInit /\ [][EvalNext]_vars

\* ------------------------------------------------------------ properties

\* A process_resumes call that got past _load_progress: its memory is live.
InRun == pc \in Running \cup {"done", "aborted"}

\* The files are as _load_progress read them: nothing was saved since.
JustLoaded == pc \in {"submit", "collect", "done"} /\ saves = 0

\* C1 (recovery correctness): with M of the N input ids in the checkpoint,
\* _load_progress returns as pending exactly the N-M other input records,
\* in input order; a run that returns has called the evaluator once for
\* each of them and for no other record, and its final result list has N
\* entries with pairwise distinct ids, which is the content of the output
\* file whenever the last save replaced it (or nothing was pending and the
\* checkpoint came from the output file).
C1_RecoveryCorrectness ==
    /\ InRun =>
        /\ Len(pending_resumes) = NumResumes - Len(loaded)
        /\ PendingIds = Resumes \ Ids(loaded)
        /\ \A j, k \in 1..Len(pending_resumes) :
              j < k => pending_resumes[j].id < pending_resumes[k].id
    /\ pc = "done" =>
        /\ \A i \in Resumes : starts[i] = IF i \in Ids(loaded) THEN 0 ELSE 1
        /\ Len(processed_resumes) = NumResumes
        /\ DistinctIds(processed_resumes)
        /\ (saves > 0 /\ save_error = "none")
              => output_file = ListFile(processed_resumes)
        /\ (saves = 0 /\ source = "output")
              => output_file = ListFile(processed_resumes)

\* C1 witness: a restart that found one record checkpointed has evaluated
\* the others and returned with the full snapshot in the output file.
C1_Witness ==
    /\ pc = "done"
    /\ Len(loaded) = 1
    /\ saves = NumResumes - 1
    /\ output_file = ListFile(processed_resumes)

\* C2 (exactly-once acceptance): whatever runs, crashes and restarts came
\* before, the output file never holds two entries with the same id.
C2_ExactlyOnceAcceptance ==
    output_file.kind = "list" => DistinctIds(output_file.data)

\* C2 witness: a run that recovered its checkpoint from the temp file left
\* by a killed run has completed the snapshot.
C2_Witness ==
    /\ pc = "done"
    /\ source = "temp"
    /\ Len(loaded) >= 1
    /\ saves >= 1
    /\ output_file = ListFile(processed_resumes)
    /\ Len(output_file.data) = NumResumes

\* C3 (atomic snapshot): the output file changes only in the replace step
\* of a save, and then to exactly the complete list handed to that save,
\* which the temp file holds in full; so it is never half-written, and a
\* kill at any other point leaves it as it was.
C3_AtomicSnapshot ==
    /\ [](output_file.kind # "partial")
    /\ [][output_file' # output_file =>
            /\ pc = "save_replace"
            /\ temp_file = ListFile(saved)
            /\ output_file' = ListFile(saved)]_vars

\* C3 witness: the process was killed with the temp file written and not
\* yet renamed; the output file still holds the snapshot before it.
C3_Witness ==
    /\ pc = "crashed"
    /\ output_file.kind = "list"
    /\ temp_file.kind = "list"
    /\ Len(temp_file.data) = Len(output_file.data) + 1
    /\ IsPrefix(output_file.data, temp_file.data)

\* C4 (idempotence): a run never submits or evaluates a record whose id is
\* in the loaded checkpoint, and every list it holds, saves or leaves in a
\* file starts with the loaded entries unchanged; a run that finds every
\* id checkpointed returns without any evaluator call or file write.
C4_Idempotence ==
    InRun =>
        /\ \A i \in Ids(loaded) : submits[i] = 0 /\ starts[i] = 0
        /\ IsPrefix(loaded, processed_resumes)
        /\ IsPrefix(loaded, saved)
        /\ output_file.kind = "list" => IsPrefix(loaded, output_file.data)
        /\ (writer = "controller" /\ temp_file.kind = "list")
              => IsPrefix(loaded, temp_file.data)
        /\ (pc = "done" /\ Len(loaded) = NumResumes) =>
              /\ submits = Zero
              /\ starts = Zero
              /\ saves = 0
              /\ writer = "none"

\* C4 witness: a run over a fully checkpointed input has returned.
C4_Witness ==
    /\ pc = "done"
    /\ source = "output"
    /\ Len(loaded) = NumResumes
    /\ output_file = ListFile(loaded)

\* C5 as claimed (recovery fallback order): when the output file exists
\* and is not JSON, the temp file is tried and its records are the
\* completed set.
C5_FallbackWhenUnparsable ==
    (JustLoaded /\ ReadCheckpoint(output_file) = "JSONDecodeError"
        /\ temp_file.kind = "list")
        => loaded = temp_file.data

\* C5 amended: the output file is tried first and the temp file only when
\* the output file is absent; an output file that exists and is not JSON
\* gives the empty baseline whatever the temp file holds; the empty
\* baseline is also used when the output file is absent and the temp file
\* is absent or not JSON.
C5_FallbackOrder ==
    JustLoaded =>
        /\ output_file.kind = "list"
              => (source = "output" /\ loaded = output_file.data)
        /\ ReadCheckpoint(output_file) = "JSONDecodeError"
              => (source = "none" /\ loaded = <<>>
                    /\ pending_resumes = all_resumes)
        /\ (output_file.kind = "absent" /\ temp_file.kind = "list")
              => (source = "temp" /\ loaded = temp_file.data)
        /\ (output_file.kind = "absent"
              /\ ReadCheckpoint(temp_file) \in {"absent", "JSONDecodeError"})
              => (source = "none" /\ loaded = <<>>
                    /\ pending_resumes = all_resumes)

\* C5 witness: the output file is not JSON, the temp file holds a record,
\* and the run started from the empty baseline.
C5_Witness ==
    /\ JustLoaded
    /\ ReadCheckpoint(output_file) = "JSONDecodeError"
    /\ temp_file.kind = "list"
    /\ Len(temp_file.data) >= 1
    /\ loaded = <<>>
    /\ pending_resumes = all_resumes

\* C6 as claimed (a checkpoint read failure is never fatal): whatever the
\* output file and the temp file hold, _load_progress returns normally.
C6_LoadNeverRaises == pc # "load_raised"

\* Entries of processed_resumes that this run appended for resume i.
EntriesOf(i) ==
    {k \in (Len(loaded) + 1)..Len(processed_resumes) :
        processed_resumes[k].id = i}

\* C7 (per-item failure containment): every completion the controller has
\* handled has exactly one entry; it is an error entry (an error reason and
\* an evaluation_timestamp) exactly when that item's own worker raised or
\* returned an error, and the worker's aggregate otherwise; no future is
\* ever cancelled; the run leaves the loop early only when a save raised,
\* never because a worker did; and a run that returns has handled every
\* pending item.
C7_FailureContainment ==
    InRun =>
        /\ \A i \in Resumes :
              /\ future[i] \in {"none", "queued", "running", "finished", "yielded"}
              /\ future[i] = "yielded" =>
                    /\ Cardinality(EntriesOf(i)) = 1
                    /\ \A k \in EntriesOf(i) :
                          LET e == processed_resumes[k].evaluation IN
                          /\ e.evaluation_timestamp
                          /\ result[i] = "raised" =>
                                (e.kind = "error" /\ e.error = "str(e)")
                          /\ result[i] = "no_valid" => e = NoValidEvaluations
                          /\ result[i] = "scores" => e = Aggregate
              /\ future[i] # "yielded" => EntriesOf(i) = {}
        /\ pc \in {"aborting", "aborted"} => save_error \in {"open", "write"}
        /\ pc = "done" => \A i \in PendingIds : future[i] = "yielded"

\* C7 witness: a run has returned in which one worker raised, its error
\* entry was recorded, and a sibling handled after it has its aggregate.
C7_Witness ==
    /\ pc = "done"
    /\ \E k \in (Len(loaded) + 1)..(Len(processed_resumes) - 1) :
          /\ result[processed_resumes[k].id] = "raised"
          /\ processed_resumes[k].evaluation = ExceptionEvaluation
          /\ result[processed_resumes[k + 1].id] = "scores"
          /\ processed_resumes[k + 1].evaluation = Aggregate
    /\ output_file = ListFile(processed_resumes)

\* The step of the controller that handles one completion.
HandlesCompletion == pc = "collect" /\ pc' = "save_open"

\* C8 as claimed (completion order): the completion the controller handles
\* is always the oldest one not handled yet, so that the appended entries
\* are in the order in which the workers finished.
C8_CompletionOrder ==
    [][HandlesCompletion =>
          processed_resumes'[Len(processed_resumes')].id = Head(finish_order)]_vars

\* C8 amended: after each completion and before the next one is handled
\* the controller saves the previously saved list with that item's entry
\* appended at the end, so that after k completions the list has M+k
\* entries, the M loaded ones first; the others are in the order in which
\* as_completed delivered them, which is the order of finishing for every
\* future that finishes after as_completed was entered, while the futures
\* already finished at that point are delivered first in no fixed order.
C8_CheckpointAfterCompletion ==
    /\ [](InRun =>
            /\ saves = Cardinality({i \in Resumes : future[i] = "yielded"})
            /\ Len(processed_resumes) = Len(loaded) + saves
            /\ IsPrefix(loaded, processed_resumes)
            /\ saved = processed_resumes
            /\ (pc \in {"collect", "done"} /\ saves > 0 /\ save_error = "none")
                  => output_file = ListFile(processed_resumes))
    /\ [][HandlesCompletion =>
            \E i \in Resumes :
                /\ future[i] = "finished"
                /\ prefinished = {} => i = Head(finish_order)
                /\ processed_resumes' =
                      Append(processed_resumes, ProcessedResume(i, result[i]))
                /\ saved' = Append(saved, ProcessedResume(i, result[i]))]_vars

\* C8 witness: a run has saved two completions in the reverse of their
\* submission order.
C8_Witness ==
    /\ pc = "done"
    /\ loaded = <<>>
    /\ Len(processed_resumes) >= 2
    /\ processed_resumes[1].id > processed_resumes[2].id
    /\ output_file = ListFile(processed_resumes)

\* C9 (single writer): only the controller thread is ever inside
\* _save_progress, at most once at a time and exactly during its save
\* steps, and every write to the temp or output file is the controller's.
C9_SingleWriter ==
    /\ saving \subseteq {"controller"}
    /\ Cardinality(saving) <= 1
    /\ saving # {} <=> pc \in {"save_open", "save_write", "save_replace"}
    /\ writer \in {"none", "controller"}

\* C9 witness: the controller is writing the temp file while a worker is
\* evaluating another resume.
C9_Witness ==
    /\ pc = "save_write"
    /\ temp_file = Partial
    /\ saving = {"controller"}
    /\ InProgress # {}

\* C10 (bounded pool, submit once): every pending resume is submitted
\* exactly once and no other resume is submitted; its evaluator is started
\* at most once, and exactly once by the time the run returns; at no time
\* are more than max_workers evaluators in progress.
C10_BoundedPoolSubmitOnce ==
    InRun =>
        /\ \A i \in Resumes :
              /\ submits[i] <= 1
              /\ starts[i] <= submits[i]
              /\ i \notin PendingIds => submits[i] = 0
              /\ (pc # "submit" /\ i \in PendingIds) => submits[i] = 1
              /\ (pc = "done" /\ i \in PendingIds) => starts[i] = 1
        /\ Cardinality(InProgress) <= max_workers

\* C10 witness: the pool is full and a submitted resume waits in the queue.
C10_Witness ==
    /\ Cardinality(InProgress) = max_workers
    /\ \E i \in Resumes : future[i] = "queued"
    /\ pc = "collect"

\* C11 (rename failure is survivable): a save whose os.replace raises
\* changes neither file nor the result list and leaves the controller in
\* its collecting loop, with the full list still in the temp file; the run
\* is never aborted by it and still handles every pending item; and every
\* save whose os.replace succeeds, the first one after a failed one
\* included, puts into the output file every result collected so far.
C11_RenameFailureSurvivable ==
    /\ [](save_error = "replace" =>
            /\ pc \in {"collect", "done"}
            /\ saved = processed_resumes
            /\ temp_file = ListFile(processed_resumes))
    /\ [](pc = "done" => \A i \in PendingIds : future[i] = "yielded")
    /\ [][(pc = "save_replace" /\ pc' # pc) =>
            \/ pc' = "crashed"
            \/ /\ pc' = "collect"
               /\ processed_resumes' = processed_resumes
               /\ future' = future
               /\ \/ /\ save_error' = "replace"
                     /\ output_file' = output_file
                     /\ temp_file' = temp_file
                  \/ /\ save_error' = "none"
                     /\ output_file' = ListFile(processed_resumes)]_vars

\* C11 witness: the second save of a run is about to replace the output
\* file, which still lacks the entry of the first save because that save's
\* os.replace raised; the temp file holds both entries.
C11_Witness ==
    /\ pc = "save_replace"
    /\ saves = 2
    /\ save_error = "none"
    /\ temp_file = ListFile(saved)
    /\ output_file # ListFile(SubSeq(saved, 1, Len(saved) - 1))

\* C12 as claimed (a checkpoint write failure never aborts the run): when
\* open or json.dump of the temp file raises inside _save_progress, the
\* controller stays in its loop and goes on collecting.
C12_WriteFailureNeverAborts ==
    save_error \in {"open", "write"} => pc \notin {"aborting", "aborted"}

\* Entries of the result list, loaded or appended, for resume i.
SnapshotEntriesOf(i) ==
    {k \in 1..Len(processed_resumes) : processed_resumes[k].id = i}

\* C13 (evaluation outcome totality): when process_resumes returns, every
\* input record has exactly one entry in the result list, the entry's
\* evaluation carries an evaluation_timestamp and is either an aggregate
\* (scores, no error) or an error with a reason, never both and never
\* neither, and the list is the content of the output file whenever the
\* last save replaced it.
C13_OutcomeTotality ==
    pc = "done" =>
        /\ Len(processed_resumes) = NumResumes
        /\ \A i \in Resumes :
              /\ Cardinality(SnapshotEntriesOf(i)) = 1
              /\ \A k \in SnapshotEntriesOf(i) :
                    LET e == processed_resumes[k].evaluation IN
                    /\ e.evaluation_timestamp
                    /\ e.kind \in {"scores", "error"}
                    /\ e.kind = "scores" <=> e.error = "none"
        /\ (saves > 0 /\ save_error = "none") =>
              /\ output_file.kind = "list"
              /\ Ids(output_file.data) = Resumes
              /\ Len(output_file.data) = NumResumes

\* C13 witness: a run has returned with an aggregate for one record and an
\* error entry for another, both in the output file.
C13_Witness ==
    /\ pc = "done"
    /\ output_file = ListFile(processed_resumes)
    /\ \E j, k \in 1..Len(processed_resumes) :
          /\ processed_resumes[j].evaluation.kind = "scores"
          /\ processed_resumes[k].evaluation.kind = "error"
          /\ result[processed_resumes[k].id] \in {"no_valid", "raised"}

\* The markers occurring in a text: the stretches from an opening brace to
\* the first closing brace after it, with at least one lexeme between the
\* two, the opening brace being the first one since the previous closing
\* brace.
MarkersIn(s) ==
    {SubSeq(s, p[1], p[2]) :
        p \in {q \in (1..Len(s)) \X (1..Len(s)) :
                  /\ q[1] + 1 < q[2]
                  /\ s[q[1]] = "{"
                  /\ s[q[2]] = "}"
                  /\ \A k \in q[1]..(q[2] - 1) : s[k] # "}"
                  /\ \A k \in 1..(q[1] - 1) :
                        s[k] = "{" => \E l \in k..(q[1] - 1) : s[l] = "}"}}

\* C18 (marker validation): with R the markers required for the
\* recruitment type and U the markers occurring in the text,
\* validate_resume reports one missing-marker issue for each marker of
\* R \ U and no other, one unexpected-marker issue for each marker of U \ R
\* and no other, and is_valid is TRUE exactly when R = U.
C18_MarkerValidation ==
    gen_pc = "validated" =>
        LET R == allowed_tokens(bias_tokens, recruitment_type)
            U == MarkersIn(resume_content.text)
            missing == {i \in validation_result.issues : i.kind = "missing"}
            extra == {i \in validation_result.issues : i.kind = "extra"}
        IN  /\ Cardinality(missing) = Cardinality(R \ U)
            /\ {i.about : i \in missing} = R \ U
            /\ Cardinality(extra) = Cardinality(U \ R)
            /\ {i.about : i \in extra} = U \ R
            /\ (R \ U # {} \/ U \ R # {}) => ~validation_result.is_valid
            /\ R = U => validation_result.is_valid

\* C18 witness: a text for a campus recruitment that holds the career
\* marker and not the demographic one was given one missing-marker issue
\* and one unexpected-marker issue and found invalid.
C18_Witness ==
    /\ gen_pc = "validated"
    /\ recruitment_type = "CAMPUS_TECH"
    /\ resume_content.text = Token("INDUSTRY")
    /\ {i \in validation_result.issues : i.kind \in {"missing", "extra"}}
          = {MissingIssue(Token("NAME")), ExtraIssue(Token("INDUSTRY"))}
    /\ ~validation_result.is_valid

\* The generator's snapshot holds an entry for work item k: in memory or in
\* the output file.
Recorded(k) ==
    \/ ResumeExists(generated_resumes, WorkItems[k])
    \/ /\ gen_output_file.kind = "list"
       /\ ResumeExists(gen_output_file.data, WorkItems[k])

\* C14 as claimed (generation outcome recording): a work item whose session
\* ended EXHAUSTED is recorded in the generator's snapshot, so that after
\* batch_generate_resumes every enumerated item has an entry.
C14_ExhaustedIsRecorded ==
    gen_pc = "finished" => \A k \in 1..NumGenItems : Recorded(k)

\* C14 amended: a work item whose session ended EXHAUSTED is never
\* recorded, neither in self.generated_data["resumes"] nor in the output
\* file: it is only counted in total_errors.  After batch_generate_resumes
\* every enumerated item has been reached; the items with an entry in
\* memory are exactly those skipped as existing or whose session ended
\* SUCCESS, and total_errors counts the exhausted items and the items
\* whose save_data raised.
C14_ExhaustedNotRecorded ==
    /\ \A k \in DOMAIN outcome :
          /\ outcome[k] = "exhausted" => ~Recorded(k)
          /\ outcome[k] \in {"skipped", "generated", "save_failed"}
                => ResumeExists(generated_resumes, WorkItems[k])
    /\ gen_pc \in {"enumerate", "finished"} =>
          /\ total_errors =
                Cardinality({k \in DOMAIN outcome :
                                outcome[k] \in {"exhausted", "save_failed"}})
          /\ total_generated =
                Cardinality({k \in DOMAIN outcome : outcome[k] = "generated"})
    /\ gen_pc = "finished" => \A k \in 1..NumGenItems : outcome[k] # "none"

\* C14 witness: the loops have ended, the first item's session was
\* exhausted and a later item was generated; the output file holds the
\* saved entries and none for the exhausted item.
C14_Witness ==
    /\ gen_pc = "finished"
    /\ outcome[1] = "exhausted"
    /\ \E k \in 2..NumGenItems : outcome[k] = "generated"
    /\ gen_output_file = ListFile(CleanedData(generated_resumes))
    /\ ~ResumeExists(gen_output_file.data, WorkItems[1])

\* The assistant turns of conversation_history that hold a string reply
\* passing validate_resume.
ValidTurns ==
    {k \in 1..Len(conversation_history) :
        /\ conversation_history[k].role = "assistant"
        /\ conversation_history[k].content.kind = "str"
        /\ validate_resume(bias_tokens, conversation_history[k].content,
                           position, recruitment_type).is_valid}

\* C15 (generation attempt budget): generate_resume calls chat_completion
\* at most max_attempts times, one call per round; it returns on the first
\* reply that passes validation, after attempt + 1 calls, and raises only
\* after exactly max_attempts calls none of whose replies passed.
C15_AttemptBudget ==
    /\ session \in {"none", "active", "SUCCESS", "EXHAUSTED"}
    /\ session # "none" =>
          /\ calls <= max_attempts
          /\ attempt <= max_attempts
    /\ session = "active" => (calls = attempt /\ ValidTurns = {})
    /\ session = "SUCCESS" =>
          /\ calls = attempt + 1
          /\ validation_result.is_valid
          /\ response = Replied(resume_content)
          /\ ValidTurns = {Len(conversation_history)}
          /\ conversation_history[Len(conversation_history)].content
                = resume_content
    /\ session = "EXHAUSTED" =>
          /\ calls = max_attempts
          /\ attempt = max_attempts
          /\ ValidTurns = {}

\* C15 witness: a session whose every reply failed validation has raised
\* after max_attempts calls and as many validations.
C15_Witness ==
    /\ session = "EXHAUSTED"
    /\ calls = max_attempts
    /\ validations = max_attempts
    /\ Len(conversation_history) = 2 + 2 * max_attempts

\* A step that is one chat_completion call.
CallStep == calls' = calls + 1

\* C16 (transport failure): a chat_completion call that raises consumes
\* exactly one attempt; validate_resume is not called in that round, the
\* conversation history and the latest validation result stay as they
\* were, and the session goes on.
C16_TransportFailure ==
    [][(CallStep /\ response' = Raised) =>
          /\ attempt' = attempt + 1
          /\ validations' = validations
          /\ conversation_history' = conversation_history
          /\ validation_result' = validation_result
          /\ session' = session
          /\ gen_pc' = gen_pc
          /\ generated_resumes' = generated_resumes]_vars

\* C16 witness: the call after a failed validation has raised: two
\* attempts are used up, one reply was validated, and the history still
\* ends with the correction turn.
C16_Witness ==
    /\ session = "active"
    /\ response = Raised
    /\ attempt = 2
    /\ calls = 2
    /\ validations = 1
    /\ Len(conversation_history) = 4
    /\ conversation_history[4].content.kind = "correction"

\* The completeness check of validate_resume found nothing to add.
Complete(vr) ==
    \A i \in vr.issues : i.kind \notin {"section", "quantitative"}

\* The marker check of validate_resume passes for a reply.
MarkersExact(c) ==
    MarkersIn(c.text) = allowed_tokens(bias_tokens, recruitment_type)

\* C17 as claimed (a validation pass requires both checks): a session is
\* in SUCCESS only if its reply passed the marker check and the
\* completeness check.
C17_PassNeedsBothChecks ==
    session = "SUCCESS" =>
        /\ MarkersExact(resume_content)
        /\ Complete(validation_result)

\* C17 amended: a string reply moves the session to SUCCESS if and only if
\* it passes the marker check; the completeness check only adds issues and
\* never changes the verdict.  A reply that fails the marker check leaves
\* the session active and uses up one attempt.
C17_PassNeedsMarkerCheckOnly ==
    /\ [](session = "SUCCESS" => MarkersExact(resume_content))
    /\ [][(CallStep /\ response'.kind = "replied"
              /\ resume_content'.kind = "str") =>
             /\ validation_result'.is_valid <=> MarkersExact(resume_content')
             /\ session' = "SUCCESS" <=> MarkersExact(resume_content')
             /\ ~MarkersExact(resume_content') =>
                   (session' = "active" /\ attempt' = attempt + 1)]_vars

\* C17 witness: a session is in SUCCESS with a reply that holds exactly the
\* required markers, none of the required sections and no quantified
\* achievement.
C17_Witness ==
    /\ session = "SUCCESS"
    /\ MarkersExact(resume_content)
    /\ resume_content.sections = {}
    /\ QuantitativeIssue \in validation_result.issues
    /\ SectionIssue("skills") \in validation_result.issues

\* A step in which a string reply failed validate_resume.
FailedValidation ==
    /\ CallStep
    /\ response'.kind = "replied"
    /\ resume_content'.kind = "str"
    /\ ~validation_result'.is_valid

\* C19 (corrective feedback, append-only turns): after a reply failed
\* validation the conversation history is the previous one followed by the
\* failed reply as an assistant turn and one user turn holding every issue
\* of the validation result; and inside generate_resume every step of the
\* process leaves the previous history as a prefix of the next.
C19_CorrectiveFeedback ==
    /\ [][FailedValidation =>
             /\ validation_result' =
                   validate_resume(bias_tokens, resume_content', position,
                                   recruitment_type)
             /\ validation_result'.issues # {}
             /\ Len(conversation_history') = Len(conversation_history) + 2
             /\ IsPrefix(conversation_history, conversation_history')
             /\ conversation_history'[Len(conversation_history) + 1]
                   = Turn("assistant", resume_content')
             /\ conversation_history'[Len(conversation_history) + 2]
                   = Turn("user", Correction(validation_result'.issues))]_vars
    /\ [][(gen_pc = "attempt" /\ gen_pc' # "crashed") =>
             IsPrefix(conversation_history, conversation_history')]_vars

\* C19 witness: two replies have failed validation; the history holds both
\* with their corrections, the second naming a marker and a missing
\* quantified achievement.
C19_Witness ==
    /\ session = "active"
    /\ Len(conversation_history) = 6
    /\ conversation_history[3].role = "assistant"
    /\ conversation_history[4].content.kind = "correction"
    /\ conversation_history[5] = Turn("assistant", resume_content)
    /\ conversation_history[6] = Turn("user", Correction(validation_result.issues))
    /\ QuantitativeIssue \in validation_result.issues
    /\ \E i \in validation_result.issues : i.kind \in {"missing", "extra"}

\* C20 (EXHAUSTED is contained per item): a session that ends EXHAUSTED
\* adds one to total_errors, leaves the entries and total_generated alone
\* and makes the loops go on with the next item; the loops end only after
\* the last item, every item having been reached.
C20_ExhaustedContained ==
    /\ [][session' = "EXHAUSTED" /\ session = "active" =>
             /\ total_errors' = total_errors + 1
             /\ total_generated' = total_generated
             /\ generated_resumes' = generated_resumes
             /\ gen_output_file' = gen_output_file
             /\ item' = item + 1
             /\ gen_pc' = "enumerate"]_vars
    /\ [](gen_pc = "finished" =>
             /\ item = NumGenItems + 1
             /\ \A k \in 1..NumGenItems :
                   outcome[k] \in {"skipped", "generated", "exhausted",
                                   "save_failed"})

\* C20 witness: the loops have ended with one error counted for the first
\* item, whose session was exhausted, and the last item generated after it.
C20_Witness ==
    /\ gen_pc = "finished"
    /\ outcome[1] = "exhausted"
    /\ outcome[NumGenItems] = "generated"
    /\ total_errors = 1
    /\ total_generated >= 1

\* C29 as claimed (atomic snapshot of the generator): while save_data
\* writes and after a kill, the output path holds a complete snapshot that
\* parses, never a half-written one.
C29_SaveDataAtomic ==
    /\ gen_pc = "save_dump" => gen_output_file.kind = "list"
    /\ gen_pc = "crashed" => gen_output_file.kind # "partial"

\* Positions of the entries of a resumes list that belong to a work item.
EntriesFor(l, it) ==
    {k \in 1..Len(l) :
        /\ l[k].metadata.position = it.position
        /\ l[k].metadata.recruitment_type = it.recruitment_type
        /\ l[k].metadata.skill_level = it.skill_level}

\* C30 (no regeneration): a process starts from the entries of the output
\* file it loaded and only appends to them; chat_completion is never called
\* for a work item that has an entry in that list; and, the first file
\* having at most one entry per item, through every sequence of runs the
\* resumes list in memory and the one in the output file hold at most one
\* entry per item.
C30_NoRegeneration ==
    /\ [](\A k \in 1..NumGenItems :
            /\ Cardinality(EntriesFor(generated_resumes, WorkItems[k])) <= 1
            /\ gen_output_file.kind = "list" =>
                  Cardinality(EntriesFor(gen_output_file.data, WorkItems[k])) <= 1)
    /\ [][CallStep => EntriesFor(generated_resumes, WorkItems[item]) = {}]_vars
    /\ [][(gen_pc \notin GenRunning /\ gen_pc' = "enumerate") =>
             generated_resumes' = gen_output_file.data]_vars
    /\ [][(gen_pc \in GenRunning /\ gen_pc' \in GenRunning \cup {"finished"}) =>
             IsPrefix(generated_resumes, generated_resumes')]_vars

\* C30 witness: a run that found the first item in the output file of an
\* earlier run has skipped it, generated the last one and ended with one
\* entry per item in the file.
C30_Witness ==
    /\ gen_pc = "finished"
    /\ outcome[1] = "skipped"
    /\ outcome[NumGenItems] = "generated"
    /\ gen_output_file = ListFile(CleanedData(generated_resumes))
    /\ \A k \in 1..NumGenItems :
          Cardinality(EntriesFor(generated_resumes, WorkItems[k])) = 1

\* C21 as claimed (network calls are time-bounded): a generation session
\* that is under way ends, in SUCCESS or in EXHAUSTED, even when the remote
\* service never answers.
C21_SessionTerminates ==
    (session = "active") ~> (session \in {"SUCCESS", "EXHAUSTED"})

\* The numbers the lines of a string response carry for a metric.
NumbersFor(r, m) ==
    {r.lines[k].number : k \in {j \in 1..Len(r.lines) :
                                   /\ m \in r.lines[j].keywords
                                   /\ r.lines[j].matched}}

\* C22 (score bounds): a sample that _extract_scores returns has its
\* capability and experience within 0..40 and its potential within 0..20,
\* each taken from a line of the response for that metric, and its total
\* is their sum; a response that has no number for one of the three
\* metrics, or is no string, gives no sample.
C22_ScoreBounds ==
    eval_pc = "extracted" =>
        /\ evaluation_result.kind = "scores" =>
              /\ eval_response.kind = "str"
              /\ evaluation_result.capability_score \in 0..40
              /\ evaluation_result.experience_score \in 0..40
              /\ evaluation_result.potential_score \in 0..20
              /\ \A m \in MetricSet :
                    evaluation_result[m] \in NumbersFor(eval_response, m)
              /\ evaluation_result.total_score =
                    evaluation_result.capability_score
                    + evaluation_result.experience_score
                    + evaluation_result.potential_score
        /\ (\/ eval_response.kind # "str"
            \/ \E m \in MetricSet : NumbersFor(eval_response, m) = {})
              => evaluation_result = NoScores

\* C22 witness: a response with the three metrics at their maxima has been
\* extracted as a sample with total 100.
C22_Witness ==
    /\ eval_pc = "extracted"
    /\ Len(eval_response.lines) = 3
    /\ evaluation_result = Scores(40, 40, 20)
    /\ evaluation_result.total_score = 100

\* A step in which evaluate_single calls self.client.generate.
EvalCallStep ==
    /\ eval_pc = "evaluate_single"
    /\ generate_calls' # generate_calls

TotalCalls == Sum(generate_calls)

\* C24 (evaluation attempt budget): evaluate_multiple goes through all
\* num_evaluations samples; a sample makes at most max_retries calls; a
\* call that fails (a falsy response, a response without valid scores, an
\* exception while handling a response that is no string) uses up exactly
\* one attempt and leaves the sample open; a sample without a result has
\* made exactly max_retries calls; a sample ends at its first response
\* with valid scores and makes no call after it; one item costs at most
\* num_evaluations * max_retries calls; a falsy response is never handed
\* to _extract_scores.
C24_EvaluationBudget ==
    /\ [](/\ \A k \in DOMAIN generate_calls : generate_calls[k] <= max_retries
          /\ TotalCalls <= num_evaluations * max_retries
          /\ extractions <= TotalCalls
          /\ \A k \in 1..Len(samples) :
                samples[k] = NoScores =>
                    generate_calls[k] = max_retries
          /\ eval_pc = "returned" =>
                /\ Len(samples) = num_evaluations
                /\ \A k \in 1..num_evaluations : generate_calls[k] >= 1)
    /\ [][EvalCallStep =>
             /\ sample = Len(samples) + 1
             /\ generate_calls' =
                   [generate_calls EXCEPT ![sample] = generate_calls[sample] + 1]
             /\ IF Falsy(eval_response')
                THEN /\ extractions' = extractions
                     /\ evaluation_result' = evaluation_result
                     /\ retry_count' = retry_count + 1
                     /\ samples' = samples
                ELSE /\ extractions' = extractions + 1
                     /\ evaluation_result' = _extract_scores(eval_response')
                     /\ IF evaluation_result'.kind = "scores"
                        THEN /\ samples' = Append(samples, evaluation_result')
                             /\ sample' = sample + 1
                        ELSE /\ retry_count' = retry_count + 1
                             /\ samples' = samples
                             /\ sample' = sample]_vars

\* C24 witness: every sample has used all its calls, among them one whose
\* response was falsy, and evaluate_multiple has returned after
\* num_evaluations * max_retries calls.
C24_Witness ==
    /\ eval_pc = "returned"
    /\ TotalCalls = num_evaluations * max_retries
    /\ samples = [k \in 1..num_evaluations |-> NoScores]
    /\ Falsy(eval_response)
    /\ extractions = TotalCalls - 1

IsValidSample(s) == s.kind = "scores"

\* The results of the samples that are valid, in sample order.
ValidSamples == SelectSeq(samples, IsValidSample)

\* C25 (aggregation): evaluate_multiple returns the error record exactly
\* when none of its samples is valid; otherwise it returns statistics
\* whose four score lists hold the values of the valid samples and of no
\* other, one per valid sample, in sample order.
C25_Aggregation ==
    eval_pc = "returned" =>
        /\ eval_result = NoValidEvaluations <=> ValidSamples = <<>>
        /\ eval_result.kind = "error" <=> ValidSamples = <<>>
        /\ ValidSamples # <<>> =>
              /\ eval_result.kind = "scores"
              /\ eval_result.evaluation_timestamp
              /\ eval_result.scores.total.scores =
                    [k \in 1..Len(ValidSamples) |-> ValidSamples[k].total_score]
              /\ eval_result.scores.capability.scores =
                    [k \in 1..Len(ValidSamples) |-> ValidSamples[k].capability_score]
              /\ eval_result.scores.experience.scores =
                    [k \in 1..Len(ValidSamples) |-> ValidSamples[k].experience_score]
              /\ eval_result.scores.potential.scores =
                    [k \in 1..Len(ValidSamples) |-> ValidSamples[k].potential_score]

\* C25 witness: the first and the third sample are valid, the second is
\* not, and the statistics hold the two totals in that order.
C25_Witness ==
    /\ eval_pc = "returned"
    /\ samples[1].kind = "scores"
    /\ samples[2] = NoScores
    /\ samples[3].kind = "scores"
    /\ eval_result.kind = "scores"
    /\ eval_result.scores.total.scores = <<90, 80>>
    /\ eval_result.scores.capability.scores = <<40, 30>>

StatMetrics == {"total", "capability", "experience", "potential"}

\* n * n times the sum of the squared deviations of xs from its mean:
\* the sum over i of (n * xs[i] - (xs[1] + ... + xs[n])) squared.
RECURSIVE SqDevFrom(_, _, _)
SqDevFrom(xs, n, t) ==
    IF xs = <<>> THEN 0
    ELSE (IF n * Head(xs) >= t
          THEN (n * Head(xs) - t) * (n * Head(xs) - t)
          ELSE (t - n * Head(xs)) * (t - n * Head(xs)))
         + SqDevFrom(Tail(xs), n, t)

SqDev(xs) == SqDevFrom(xs, Len(xs), Sum(xs))

\* C26 as claimed (standard deviation): for the scores 80, 85, 90 the mean
\* is 85 and the std is the population standard deviation, the square root
\* of 50/3; for two or more scores the std is the square root of the sum
\* of the squared deviations from the mean divided by n.
C26_PopulationStd ==
    (eval_pc = "returned" /\ eval_result.kind = "scores") =>
        \A metric \in StatMetrics :
            LET data == eval_result.scores[metric]
                n == Len(data.scores)
            IN  /\ data.scores = <<80, 85, 90>> =>
                      /\ data.mean = [num |-> 85, den |-> 1]
                      /\ data.std.sqrt = [num |-> 50, den |-> 3]
                /\ n >= 2 =>
                      data.std.sqrt.num * n * n * n
                          = data.std.sqrt.den * SqDev(data.scores)

\* C26 amended: the mean is the sum of the scores divided by their number;
\* for two or more scores the std is the sample standard deviation, the
\* square root of the sum of the squared deviations from the mean divided
\* by n - 1; for the scores 80, 85, 90 the mean is 85 and the std is 5.
C26_SampleStd ==
    (eval_pc = "returned" /\ eval_result.kind = "scores") =>
        \A metric \in StatMetrics :
            LET data == eval_result.scores[metric]
                n == Len(data.scores)
            IN  /\ data.mean.num * n = data.mean.den * Sum(data.scores)
                /\ data.scores = <<80, 85, 90>> =>
                      /\ data.mean = [num |-> 85, den |-> 1]
                      /\ data.std.sqrt = [num |-> 25, den |-> 1]
                /\ n >= 2 =>
                      data.std.sqrt.num * n * n * (n - 1)
                          = data.std.sqrt.den * SqDev(data.scores)

\* C26 witness: the three samples had the totals 80, 85 and 90; the
\* returned mean is 85 and the returned std is the square root of 25.
C26_Witness ==
    /\ eval_pc = "returned"
    /\ eval_result.kind = "scores"
    /\ eval_result.scores.total.scores = <<80, 85, 90>>
    /\ eval_result.scores.total.mean = [num |-> 85, den |-> 1]
    /\ eval_result.scores.total.std = [sqrt |-> [num |-> 25, den |-> 1]]

\* C27 (single valid sample): when exactly one sample is valid, every
\* metric's std is 0 and its mean is that sample's value.
C27_SingleSample ==
    (eval_pc = "returned" /\ Len(ValidSamples) = 1) =>
        /\ eval_result.kind = "scores"
        /\ \A metric \in StatMetrics :
              /\ eval_result.scores[metric].std.sqrt.num = 0
              /\ eval_result.scores[metric].mean.den = 1
        /\ eval_result.scores.total.mean.num = ValidSamples[1].total_score
        /\ eval_result.scores.capability.mean.num = ValidSamples[1].capability_score
        /\ eval_result.scores.experience.mean.num = ValidSamples[1].experience_score
        /\ eval_result.scores.potential.mean.num = ValidSamples[1].potential_score

\* C27 witness: only the second sample was valid, with total 85.
C27_Witness ==
    /\ eval_pc = "returned"
    /\ samples[1] = NoScores
    /\ samples[2].kind = "scores"
    /\ samples[3] = NoScores
    /\ eval_result.kind = "scores"
    /\ eval_result.scores.total.scores = <<85>>
    /\ eval_result.scores.total.mean = [num |-> 85, den |-> 1]
    /\ eval_result.scores.total.std = ZeroStd

\* C28 as claimed (work registry ids): on an input file whose records were
\* written without an id, every run, the second one included, gets through
\* the partitioning of _load_progress against the checkpoint it finds.
C28_PartitioningSucceeds == ~has_id => pc # "load_raised"

\* Positions of the lines of a string response that carry, for metric m, a
\* number within its limits, and of those that carry one above them.
InRangeAt(r, m) ==
    {k \in 1..Len(r.lines) :
        /\ m \in r.lines[k].keywords
        /\ r.lines[k].matched
        /\ r.lines[k].number <= max_scores[m]}

AboveAt(r, m) ==
    {k \in 1..Len(r.lines) :
        /\ m \in r.lines[k].keywords
        /\ r.lines[k].matched
        /\ r.lines[k].number > max_scores[m]}

\* A number above the maximum of m stands before every number of m within
\* the limits (or there is none within them).
AboveFirst(r, m) ==
    \E k \in AboveAt(r, m) : \A j \in InRangeAt(r, m) : k < j

\* C39 as claimed (an out-of-range value poisons the response): a response
\* in which any line carries, for a metric, a number above that metric's
\* maximum gives no sample.
C39_AnyOutOfRangePoisons ==
    (eval_pc = "extracted" /\ OutOfRange(eval_response)) =>
        evaluation_result = NoScores

\* C39 amended: a response gives no sample when, for some metric, a number
\* above the maximum stands before the first number within the limits,
\* also when such a later line exists and the other metrics are valid; a
\* number above the maximum that stands after the metric's first number
\* within the limits is never read, and the response gives a sample when
\* that holds for every such number and every metric has a number within
\* its limits.
C39_OutOfRangePoisons ==
    (eval_pc = "extracted" /\ eval_response.kind = "str") =>
        /\ (\E m \in MetricSet : AboveFirst(eval_response, m))
              => evaluation_result = NoScores
        /\ (/\ \A m \in MetricSet : InRangeAt(eval_response, m) # {}
            /\ \A m \in MetricSet : ~AboveFirst(eval_response, m))
              => /\ evaluation_result.kind = "scores"
                 /\ \A m \in MetricSet :
                       \E k \in InRangeAt(eval_response, m) :
                          /\ evaluation_result[m] = eval_response.lines[k].number
                          /\ \A j \in InRangeAt(eval_response, m) : k <= j

\* C39 witness: capability has 41 on the first line and 40 on the second,
\* the other metrics are within their limits, and no sample is returned.
C39_Witness ==
    /\ eval_pc = "extracted"
    /\ eval_response =
          StrResponse(<<ScoreLine({"capability_score"}, 41),
                        ScoreLine({"capability_score", "experience_score"}, 40),
                        ScoreLine({"potential_score"}, 20)>>)
    /\ evaluation_result = NoScores

\* The ten markers, and the three about earlier employment.
TenMarkers ==
    {Token("NAME"), Token("AGE"), Token("GENDER"), Token("MARRIAGE"),
     Token("HUKOU"), Token("INDUSTRY"), Token("COMPANY_SIZE"),
     Token("WORK_EXPERIENCE"), Token("DISABILITY"), Token("POLITICAL")}

CareerMarkers ==
    {Token("INDUSTRY"), Token("COMPANY_SIZE"), Token("WORK_EXPERIENCE")}

CampusTypes == {"CAMPUS_TECH", "CAMPUS_PRODUCT", "CAMPUS_GENERAL"}

\* C37 (marker set by recruitment type): for a campus recruitment type
\* validate_resume requires the seven markers that are not career markers,
\* and a campus reply that holds a career marker gets an unexpected-marker
\* issue for it and is invalid; for every other recruitment type all ten
\* markers are required.  A reply is valid exactly when it holds the
\* required markers and no other.
C37_MarkerSetByType ==
    gen_pc = "validated" =>
        LET campus == recruitment_type \in CampusTypes
            required == IF campus THEN TenMarkers \ CareerMarkers
                        ELSE TenMarkers
            used == MarkersIn(resume_content.text)
        IN  /\ allowed_tokens(bias_tokens, recruitment_type) = required
            /\ Cardinality(required) = IF campus THEN 7 ELSE 10
            /\ validation_result.is_valid <=> used = required
            /\ \A t \in required \ used :
                  MissingIssue(t) \in validation_result.issues
            /\ \A t \in required :
                  ExtraIssue(t) \notin validation_result.issues
            /\ campus =>
                  \A t \in used \cap CareerMarkers :
                      /\ ExtraIssue(t) \in validation_result.issues
                      /\ MissingIssue(t) \notin validation_result.issues
                      /\ ~validation_result.is_valid

\* C37 witness: a reply with all ten markers was validated for a campus
\* recruitment type: the three career markers are reported as unexpected,
\* nothing is missing and the reply is invalid.
C37_Witness ==
    /\ gen_pc = "validated"
    /\ recruitment_type = "CAMPUS_GENERAL"
    /\ MarkersIn(resume_content.text) = TenMarkers
    /\ {i \in validation_result.issues : i.kind \in {"missing", "extra"}}
          = {ExtraIssue(t) : t \in CareerMarkers}
    /\ ~validation_result.is_valid

\* The token occurs in the text.
Occurs(token, s) ==
    \E i \in 1..Len(s) : i + Len(token) - 1 <= Len(s)
                         /\ SubSeq(s, i, i + Len(token) - 1) = token

\* C38: a template that passed validate_resume for its recruitment type,
\* substituted with any combination get_variable_combinations returns for
\* that type, keeps none of the markers required for the type (seven for a
\* campus type, all ten otherwise); every required marker has a key in the
\* combination.
C38_NoMarkerRemains ==
    gen_pc = "applied" =>
        LET required == IF recruitment_type \in CampusTypes
                        THEN TenMarkers \ CareerMarkers
                        ELSE TenMarkers
        IN  /\ validation_result.is_valid
            /\ \A t \in required :
                  /\ ~Occurs(t, augmented_content)
                  /\ \E k \in DOMAIN combination : token_mapping[k] = t
            /\ MarkersIn(augmented_content) = {}

\* C38 witness: a template for a social type with all ten markers, the name
\* marker twice, was substituted: eleven values and no brace are left.
C38_Witness ==
    /\ gen_pc = "applied"
    /\ recruitment_type = "SOCIAL_DEV"
    /\ Len(resume_content.text) = 33
    /\ Len(augmented_content) = 11
    /\ \A i \in 1..11 : augmented_content[i] \notin {"{", "}"}
    /\ combination.work_experience = "experience"

\* C35: every request generate_resume sends (the conversation at the top of
\* a round of the loop) starts with the system turn and the instruction
\* turn, then alternates assistant and user turns, ends with a user turn
\* and has 2 + 2 * v turns, v being the validations that did not accept so
\* far; a failed call adds nothing.
C35_TurnShape ==
    (gen_pc = "attempt" /\ LoopGuard) =>
        LET h == conversation_history IN
        /\ Len(h) = 2 + 2 * validations
        /\ h[1] = Turn("system", SystemPrompt)
        /\ h[2] = Turn("user", InitialPrompt(WorkItems[item]))
        /\ \A k \in 3..Len(h) :
              h[k].role = IF k % 2 = 1 THEN "assistant" ELSE "user"
        /\ h[Len(h)].role = "user"

\* Positions inside the save_data call of load_or_create_output_file.
Creating == {"create_open", "create_dump"}

\* What main does with an output file that is missing or is not JSON: the
\* read error is caught, the data start empty and save_data is entered; the
\* save truncates the file and, when it completes, the file holds the empty
\* snapshot and the batch run starts at the first item with nothing
\* generated; with nothing loaded, no enumerated item is skipped unless
\* this process generated it.
LossyRecovery ==
    /\ [][(gen_pc \notin GenRunning /\ gen_pc' \in GenRunning
           /\ gen_output_file.kind # "list")
          => /\ gen_pc' = "create_open"
             /\ generated_resumes' = <<>>
             /\ gen_output_file' = gen_output_file]_vars
    /\ [][(gen_pc = "create_open" /\ gen_pc' = "create_dump")
          => gen_output_file' = Partial]_vars
    /\ [][(gen_pc \in Creating /\ gen_pc' = "enumerate")
          => /\ gen_pc = "create_dump"
             /\ gen_output_file' = ListFile(<<>>)
             /\ generated_resumes' = <<>>
             /\ item' = 1
             /\ total_generated' = 0]_vars
    /\ [](gen_pc \in Creating => generated_resumes = <<>>)
    /\ []((gen_pc = "enumerate" /\ item <= NumGenItems
           /\ Len(generated_resumes) = total_generated)
          => ~ResumeExists(generated_resumes, WorkItems[item]))

C31_Durability ==
    /\ [][output_file.kind = "list"
          => /\ output_file'.kind = "list"
             /\ IsPrefix(output_file.data, output_file'.data)]_vars
    /\ [](output_file.kind = "list" => DistinctIds(output_file.data))

\* C31 witness: a run that was started again on an output file with one
\* entry has replaced it by a list of two entries, the first being the one
\* it loaded.
C31_Witness ==
    /\ source = "output"
    /\ Len(loaded) = 1
    /\ Len(processed_resumes) = 2
    /\ output_file = ListFile(processed_resumes)
    /\ processed_resumes[1] = loaded[1]

\* C33 (result/item pairing): the entry appended for a completion is the
\* input record of the completed future, every field unchanged, plus the
\* one field 'evaluation', which holds what that record's own worker
\* returned (or the error entry for what it raised); this stays so for
\* every entry of the run, in the list and in whatever file the list was
\* saved to.
C33_Pairing ==
    /\ [][HandlesCompletion =>
            \E i \in Resumes :
               /\ future[i] = "finished" /\ future'[i] = "yielded"
               /\ \A j \in Resumes \ {i} : future'[j] = future[j]
               /\ processed_resumes' =
                     Append(processed_resumes,
                            [id |-> i, evaluation |-> EvaluationOf(result[i])])
               /\ result' = result]_vars
    /\ [](InRun =>
            \A k \in (Len(loaded) + 1)..Len(processed_resumes) :
               LET e == processed_resumes[k]
                   r == all_resumes[e.id] IN
               /\ e.id \in PendingIds
               /\ starts[e.id] = 1
               /\ future[e.id] = "yielded"
               /\ DOMAIN e = DOMAIN r \cup {"evaluation"}
               /\ \A f \in DOMAIN r : e[f] = r[f]
               /\ e.evaluation = EvaluationOf(result[e.id])
               /\ (output_file.kind = "list" /\ k <= Len(output_file.data))
                     => output_file.data[k] = e)

\* C33 witness: two workers returned different results and the controller
\* took the completions in the order opposite to the submissions; each
\* entry in the output file carries its own record's result.
C33_Witness ==
    /\ pc = "collect"
    /\ loaded = <<>>
    /\ result[1] = "scores"
    /\ result[2] = "no_valid"
    /\ output_file =
          ListFile(<<[id |-> 2, evaluation |-> NoValidEvaluations],
                     [id |-> 1, evaluation |-> Aggregate]>>)

\* Positions of the error entries of a list of processed records.
ErrorEntries(l) == {k \in 1..Len(l) : l[k].evaluation.kind = "error"}

\* C34 (errored items are final): a completion that ended as an error (no
\* valid sample, or an exception of the worker) is appended and saved by
\* the same steps as an aggregate; an error entry in the output file stays
\* there unchanged; and a run that loaded an error entry counts its record
\* as processed: it is not pending, is never submitted or evaluated, and
\* its entry stays as loaded.
C34_ErrorsAreFinal ==
    /\ [][(HandlesCompletion
           /\ \E i \in Resumes : /\ future[i] = "finished"
                                 /\ future'[i] = "yielded"
                                 /\ result[i] \in {"no_valid", "raised"})
          => /\ Len(processed_resumes') \in ErrorEntries(processed_resumes')
             /\ saved' = processed_resumes'
             /\ saves' = saves + 1]_vars
    /\ [][output_file.kind = "list"
          => /\ output_file'.kind = "list"
             /\ \A k \in ErrorEntries(output_file.data) :
                   /\ k <= Len(output_file'.data)
                   /\ output_file'.data[k] = output_file.data[k]]_vars
    /\ [](InRun =>
            \A k \in ErrorEntries(loaded) :
               /\ loaded[k].id \notin PendingIds
               /\ submits[loaded[k].id] = 0
               /\ starts[loaded[k].id] = 0
               /\ future[loaded[k].id] = "none"
               /\ processed_resumes[k] = loaded[k])

\* C34 witness: a later run loaded an output file holding an error entry,
\* evaluated the other record only and returned; the error entry is still
\* the first entry of the output file.
C34_Witness ==
    /\ pc = "done"
    /\ source = "output"
    /\ ErrorEntries(loaded) = {1}
    /\ Len(processed_resumes) = 2
    /\ starts[loaded[1].id] = 0
    /\ starts[processed_resumes[2].id] = 1
    /\ output_file = ListFile(processed_resumes)

\* A call has returned with every pending record recorded: its future was
\* yielded, nothing is queued or running, and its entry is in the result
\* list and in the output file.
AllRecorded ==
    /\ pc = "done"
    /\ InProgress = {}
    /\ Outstanding = {}
    /\ \A i \in PendingIds :
          /\ future[i] = "yielded"
          /\ result[i] \in Outcomes
          /\ Cardinality(EntriesOf(i)) = 1
          /\ \A k \in EntriesOf(i) :
                processed_resumes[k] = ProcessedResume(i, result[i])
    /\ pending_resumes # <<>> => output_file = ListFile(processed_resumes)

\* C32 as stated: when every collaborator call returns and no save fails,
\* process_resumes terminates, and then every pending record has been
\* through all its num_evaluations samples and is recorded.
C32_AllSamplesTaken ==
    /\ (pc \in Running) ~> (pc = "done")
    /\ [](pc = "done" =>
            /\ AllRecorded
            /\ \A i \in PendingIds : sampled[i] = num_evaluations)

\* C32: when every collaborator call returns and no save fails,
\* process_resumes terminates for every pending set and every pool size,
\* and then every pending record is recorded with a terminal outcome and
\* none is queued or running; the record has been through all its
\* num_evaluations samples unless its worker raised, which it does before
\* the first sample.
C32_BatchTerminates ==
    /\ (pc \in Running) ~> (pc = "done")
    /\ [](pc = "done" =>
            /\ AllRecorded
            /\ \A i \in PendingIds :
                  /\ result[i] = "raised" => sampled[i] = 0
                  /\ result[i] # "raised" => sampled[i] = num_evaluations
                  /\ result[i] = "scores" <=> valid[i])

\* C32 witness: a call with two pending records and a pool of one thread
\* has returned; one record went through all its samples, some of them
\* valid, and the other record's worker raised.
C32_Witness ==
    /\ pc = "done"
    /\ max_workers = 1
    /\ Len(pending_resumes) = 2
    /\ \E i, j \in PendingIds :
          /\ sampled[i] = num_evaluations /\ valid[i]
          /\ result[j] = "raised" /\ sampled[j] = 0
    /\ output_file = ListFile(processed_resumes)

====
